---------------------------- MODULE Spec2Model ----------------------------
(***************************************************************************)
(* A model of the Janaru application's services and of the screens that    *)
(* drive them.                                                             *)
(*                                                                         *)
(*   SpecTask  TaskService (task-service.ts): three in-memory task lists,  *)
(*             the constructor's asynchronous loadTasks, the public        *)
(*             operations and saveTasks, over a serial AsyncStorage.       *)
(*   SpecTaskLoaded  the same once loadTasks has finished.                 *)
(*   SpecMock  ClaudeApiService.mockProcessTranscript, the keyword         *)
(*             heuristic, on transcripts given character by character.     *)
(*   SpecApi   ClaudeApiService.processTranscript (environment check, key, *)
(*             request, extraction of the JSON from the response text,     *)
(*             fallback) and useSpeechToText.startTranscription.           *)
(*   SpecCal   GoogleCalendarService (signIn, signOut, createEventForTask) *)
(*             and TasksScreen.handlePushToCalendar.                       *)
(*   SpecFlow  RecordingService with the Recording, Transcript and Tasks   *)
(*             screens: from a new recording to its tasks.                 *)
(*                                                                         *)
(*   SpecRec   the recording service: its list, its storage, its load.     *)
(*   SpecRecorder  the Recording screen with the audio recorder hook.      *)
(*                                                                         *)
(* Each specification moves the variables of its part and leaves the       *)
(* others at rest.                                                         *)
(*                                                                         *)
(* An async function runs synchronously up to its first await; every await *)
(* of a storage call is a point at which other handlers may run.  Device   *)
(* storage serves its requests one at a time in the order they were issued *)
(* (storageQ); serving a request resumes the function that awaits it.      *)
(* Storage calls succeed.                                                  *)
(***************************************************************************)
EXTENDS Integers, Sequences, FiniteSets, TLC

\* ------------------------------------------------------------------ bounds
MaxCalls == 3       \* TaskService operations invoked in one run
MaxPending == 2     \* TaskService operations in flight at one time
MaxIds == 2         \* task ids generateSecureId hands out in one run
MaxExtract == 1     \* tasks per list in one extraction response
MaxCompleted == 2   \* entries of completedTasks (a task marked twice is pushed twice)
MaxWords == 3       \* phrases in a transcript
MaxText == 3        \* pieces in the text of a model response
MaxSessions == 2    \* instances of the calendar service (app starts)
MaxEvents == 2      \* event requests sent to Google Calendar
MaxRecordings == 4  \* recordings in the recording service
MaxRecCalls == 3    \* RecordingService operations invoked in one run
MaxDuration == 3    \* seconds the duration timer counts
MaxMounts == 3      \* times the Recording screen is opened

\* --------------------------------------------------------------- constants
RecordingIds == {1, 2}
Priorities == {"high", "medium"}
HighKey == "@janaru_high_priority_tasks"
MediumKey == "@janaru_medium_priority_tasks"
CompletedKey == "@janaru_completed_tasks"
StorageKeys == {HighKey, MediumKey, CompletedKey}

VARIABLES
    highPriorityTasks,    \* TaskService.highPriorityTasks: sequence of task objects
    mediumPriorityTasks,  \* TaskService.mediumPriorityTasks
    completedTasks,       \* TaskService.completedTasks
    storage,              \* AsyncStorage: key -> the stored (serialised) list, if any
    storageQ,             \* storage requests issued and not yet served, oldest first
    loadPc,               \* where the constructor's loadTasks stands
    calls,                \* the operations in flight: slot -> record
    nextId,               \* ids generateSecureId has handed out
    history,              \* what has happened so far (see NoHistory)
    \* ClaudeApiService.processTranscript / mockProcessTranscript, and
    \* useSpeechToText.startTranscription
    env,                  \* ENV.ENVIRONMENT
    apiKey,               \* secure storage: is the API key stored
    apiPc,                \* where processTranscript stands
    apiTranscript,        \* its transcript argument (a string: characters)
    apiRecordingId,       \* its recordingId argument
    today,                \* the date when mockProcessTranscript runs
    responseText,         \* the text of the model's response, once received
    apiResult,            \* what processTranscript resolved with
    apiCause,             \* why the production path was left, if it was
    sttPc,                \* where startTranscription stands
    audioUri,             \* its audioUri argument
    sttResult,            \* how the transcript was produced
    requests,             \* HTTP requests sent to an AI API so far
    keyReads,             \* reads of an API key from secure storage so far
    \* GoogleCalendarService and TasksScreen.handlePushToCalendar
    isInitialized,        \* GoogleSignin has been configured by this instance
    accessToken,          \* the instance's token, NoToken when null
    nativeSignedIn,       \* what GoogleSignin.isSignedIn() answers; outlives the instance
    calPc,                \* where the Settings operation and the push to calendar stand
    evHasDate,            \* the pushed task has a date
    evSignedIn,           \* what isSignedIn() answered inside createEventForTask
    evOutcome,            \* how the last push to calendar ended
    eventsPosted,         \* event requests sent to Google Calendar
    sessions,             \* service instances so far
    \* RecordingService and the Recording, Transcript and Tasks screens
    recordings,           \* RecordingService.recordings
    screen,               \* the screen on top of the navigator
    routeRec,             \* its recordingId parameter, 0 when none
    recPc,                \* where RecordingScreen.handleDonePress stands
    tsRecording,          \* TranscriptScreen: id of its `recording` state, 0 when null
    tsTranscript,         \* TranscriptScreen: the transcript on screen
    tsPc,                 \* where the transcription or handleProcessTranscript stands
    tkPc,                 \* where TasksScreen.loadTasks stands
    tkShown,              \* what the Tasks screen shows
    extractedFor,         \* recordings whose tasks the task service holds
    pressed,              \* the unprocessed recording 'Process with Janaru' was pressed for
    invokedSincePress,    \* taskService.processTranscript was invoked for it since
    \* RecordingService and its storage
    rsRecordings,         \* RecordingService.recordings
    rsStorage,            \* what device storage holds under '@janaru_recordings'
    rsQ,                  \* its storage requests not yet served, oldest first
    rsLoadPc,             \* where the constructor's loadRecordings stands
    rsLast,               \* the operation invoked last, and what it threw
    rsResult,             \* what getRecordings returned last
    rsHistory,            \* what has happened so far (see NoRsHistory)
    \* RecordingScreen with useAudioRecorder
    recorder,             \* hook state `recording`: "null" or the Audio.Recording
    isRecording,          \* hook state isRecording
    elapsed,              \* hook state `duration`, in seconds
    recordedUri,          \* hook state audioUri
    rendered,             \* the hook state as of the last render
    startPc,              \* where the mount's startRecording stands
    stopPc,               \* where handleStopRecording stands
    closure,              \* the state the running handleStopRecording was created with
    produced,             \* the URI the recorder produced for the last press of stop
    added,                \* the recordings passed to recordingService.addRecording
    route,                \* the screen on top of the navigator and its recordingId
    mounts                \* how often the Recording screen was mounted

taskVars == <<highPriorityTasks, mediumPriorityTasks, completedTasks, storage,
              storageQ, loadPc, calls, nextId, history>>

apiVars == <<env, apiKey, apiPc, apiTranscript, apiRecordingId, today, responseText,
             apiResult, apiCause, sttPc, audioUri, sttResult, requests, keyReads>>

calVars == <<isInitialized, accessToken, nativeSignedIn, calPc, evHasDate, evSignedIn,
             evOutcome, eventsPosted, sessions>>

flowVars == <<recordings, screen, routeRec, recPc, tsRecording, tsTranscript, tsPc,
              tkPc, tkShown, extractedFor, pressed, invokedSincePress>>

recVars == <<rsRecordings, rsStorage, rsQ, rsLoadPc, rsLast, rsResult, rsHistory>>

hookVars == <<recorder, isRecording, elapsed, recordedUri, rendered, startPc, stopPc,
              closure, produced, added, route, mounts>>

vars == <<taskVars, apiVars, calVars, flowVars, recVars, hookVars>>

\* What each part of the app leaves alone.
notTask == <<apiVars, calVars, flowVars, recVars, hookVars>>
notApi == <<taskVars, calVars, flowVars, recVars, hookVars>>
notCal == <<taskVars, apiVars, flowVars, recVars, hookVars>>
notFlow == <<taskVars, apiVars, calVars, recVars, hookVars>>
notRec == <<taskVars, apiVars, calVars, flowVars, hookVars>>
notHook == <<taskVars, apiVars, calVars, flowVars, recVars>>

\* The task service when a run is about another part of the app.
TaskIdle ==
    /\ highPriorityTasks = <<>>
    /\ mediumPriorityTasks = <<>>
    /\ completedTasks = <<>>
    /\ storage = [k \in {"@janaru_high_priority_tasks", "@janaru_medium_priority_tasks",
                         "@janaru_completed_tasks"} |-> [present |-> FALSE, list |-> <<>>]]
    /\ storageQ = <<>>
    /\ loadPc = "done"
    /\ calls = [c \in 1..MaxPending |-> [kind |-> "none", arg |-> 0, pc |-> "none", resp |-> {}]]
    /\ nextId = 0
    /\ history = [invoked |-> 0, latest |-> [r \in {1, 2} |-> {}], superseded |-> {},
                 ended |-> [kind |-> "none", arg |-> 0, thrown |-> ""],
                 requested |-> <<>>, created |-> <<>>]

\* The API service and the transcription hook when a run is about another part.
ApiIdle ==
    /\ env = "development"
    /\ apiKey = "null"
    /\ apiPc = "off"
    /\ apiTranscript = <<>>
    /\ apiRecordingId = 0
    /\ today = [year |-> 2025, month |-> 2, date |-> 10]
    /\ responseText = <<>>
    /\ apiResult = [highPriorityTasks |-> <<>>, mediumPriorityTasks |-> <<>>]
    /\ apiCause = "none"
    /\ sttPc = "off"
    /\ audioUri = <<>>
    /\ sttResult = "none"
    /\ requests = 0
    /\ keyReads = 0

\* The calendar service when a run is about another part.
CalIdle ==
    /\ isInitialized = FALSE
    /\ accessToken = "null"
    /\ nativeSignedIn = FALSE
    /\ calPc = [who \in {"user", "event"} |-> "off"]
    /\ evHasDate = FALSE
    /\ evSignedIn = "none"
    /\ evOutcome = "none"
    /\ eventsPosted = 0
    /\ sessions = 1

\* The recordings and the screens when a run is about another part.
FlowIdle ==
    /\ recordings = <<>>
    /\ screen = "off"
    /\ routeRec = 0
    /\ recPc = "off"
    /\ tsRecording = 0
    /\ tsTranscript = ""
    /\ tsPc = "off"
    /\ tkPc = "off"
    /\ tkShown = "none"
    /\ extractedFor = {}
    /\ pressed = 0
    /\ invokedSincePress = FALSE

\* The recording service when a run is about another part.
RecIdle ==
    /\ rsRecordings = <<>>
    /\ rsStorage = [present |-> FALSE, list |-> <<>>]
    /\ rsQ = <<>>
    /\ rsLoadPc = "done"
    /\ rsLast = [kind |-> "none", arg |-> 0, thrown |-> ""]
    /\ rsResult = <<>>
    /\ rsHistory = [invoked |-> 0, persisted |-> <<>>, resolved |-> {}, added |-> 0]

\* The recording screen and its recorder hook when a run is about another part.
HookIdle ==
    /\ recorder = "null"
    /\ isRecording = FALSE
    /\ elapsed = 0
    /\ recordedUri = "null"
    /\ rendered = [recording |-> "null", isRecording |-> FALSE, audioUri |-> "null"]
    /\ startPc = "off"
    /\ stopPc = "off"
    /\ closure = [recording |-> "null", isRecording |-> FALSE, audioUri |-> "null"]
    /\ produced = "null"
    /\ added = <<>>
    /\ route = [screen |-> "off", recordingId |-> 0]
    /\ mounts = 0

NotTaskIdle == ApiIdle /\ CalIdle /\ FlowIdle /\ RecIdle /\ HookIdle
NotApiIdle == TaskIdle /\ CalIdle /\ FlowIdle /\ RecIdle /\ HookIdle
NotCalIdle == TaskIdle /\ ApiIdle /\ FlowIdle /\ RecIdle /\ HookIdle
NotFlowIdle == TaskIdle /\ ApiIdle /\ CalIdle /\ RecIdle /\ HookIdle
NotRecIdle == TaskIdle /\ ApiIdle /\ CalIdle /\ FlowIdle /\ HookIdle
NotHookIdle == TaskIdle /\ ApiIdle /\ CalIdle /\ FlowIdle /\ RecIdle

\* ------------------------------------------------------------------ strings
\* A string is the sequence of its characters.
Uppers == <<"A", "B", "C", "D", "E", "F", "G", "H", "I", "J", "K", "L", "M",
            "N", "O", "P", "Q", "R", "S", "T", "U", "V", "W", "X", "Y", "Z">>
Lowers == <<"a", "b", "c", "d", "e", "f", "g", "h", "i", "j", "k", "l", "m",
            "n", "o", "p", "q", "r", "s", "t", "u", "v", "w", "x", "y", "z">>

LowerChar(ch) ==
    IF \E i \in 1..26 : Uppers[i] = ch
    THEN Lowers[CHOOSE i \in 1..26 : Uppers[i] = ch]
    ELSE ch

\* A toLowerCase that leaves capitals as they are.
KeepCase(str) == str

\* String.prototype.toLowerCase
toLowerCase(str) == [i \in 1..Len(str) |-> LowerChar(str[i])]

\* String.prototype.includes
includes(str, sub) ==
    \E i \in 0..(Len(str) - Len(sub)) : SubSeq(str, i + 1, i + Len(sub)) = sub

\* String.prototype.startsWith
startsWith(str, prefix) ==
    Len(str) >= Len(prefix) /\ SubSeq(str, 1, Len(prefix)) = prefix

\* words.join(' ')
RECURSIVE Join(_)
Join(words) ==
    IF words = <<>> THEN <<>>
    ELSE IF Len(words) = 1 THEN words[1]
    ELSE words[1] \o <<" ">> \o Join(Tail(words))

\* The substrings mockProcessTranscript looks for.
KwTax == <<"t", "a", "x">>
KwDog == <<"d", "o", "g">>
KwVet == <<"v", "e", "t">>
KwDoctor == <<"d", "o", "c", "t", "o", "r">>
KwDriver == <<"d", "r", "i", "v", "e", "r">>
KwLicense == <<"l", "i", "c", "e", "n", "s", "e">>
KwYard == <<"y", "a", "r", "d">>
KwWaste == <<"w", "a", "s", "t", "e">>
KwDispose == <<"d", "i", "s", "p", "o", "s", "e">>
KwVacation == <<"v", "a", "c", "a", "t", "i", "o", "n">>
KwBurntOut == <<"b", "u", "r", "n", "t", " ", "o", "u", "t">>
KwBurnout == <<"b", "u", "r", "n", "o", "u", "t">>

\* The phrases transcripts are made of.
Vocabulary ==
    { <<"m", "y", " ", "T", "a", "x", "e", "s">>,
      <<"d", "o", "g">>,
      <<"v", "e", "t">>,
      <<"D", "o", "c", "t", "o", "r">>,
      <<"d", "o", "g", " ", "t", "o", " ", "t", "h", "e", " ", "v", "e", "t">>,
      <<"d", "r", "i", "v", "e", "r", "'", "s">>,
      <<"l", "i", "c", "e", "n", "s", "e">>,
      <<"y", "a", "r", "d">>,
      <<"w", "a", "s", "t", "e">>,
      <<"d", "i", "s", "p", "o", "s", "e">>,
      <<"V", "A", "C", "A", "T", "I", "O", "N">>,
      <<"b", "u", "r", "n", "t">>,
      <<"o", "u", "t">>,
      <<"b", "u", "r", "n", "o", "u", "t">>,
      <<"w", "a", "l", "k">> }

\* ------------------------------------------------------------ task objects
\* A task object.  ref is the object's identity (two list entries with the same
\* ref are one object, so a write through one is seen through the other); a
\* stored task has no identity (ref = 0).
Task(ref, id, priority, completed, recordingId) ==
    [ref |-> ref, id |-> id, priority |-> priority, completed |-> completed,
     recordingId |-> recordingId, calendarEventId |-> 0]

Range(s) == {s[i] : i \in 1..Len(s)}

AllTasks == Range(highPriorityTasks) \cup Range(mediumPriorityTasks)
              \cup Range(completedTasks)

RefsOf(s) == {s[i].ref : i \in 1..Len(s)}

\* The smallest object identity not in used.
NewRef(used) == CHOOSE x \in 1..(Cardinality(used) + 1) :
                    x \notin used /\ \A y \in 1..(x - 1) : y \in used

\* JSON.stringify of a list: the objects' fields, their identity lost.
Serialise(list) == [i \in 1..Len(list) |-> [list[i] EXCEPT !.ref = 0]]

\* JSON.parse of a stored list: new objects, none of them one of used.
RECURSIVE Parse(_, _)
Parse(stored, used) ==
    IF stored = <<>> THEN <<>>
    ELSE LET r == NewRef(used)
         IN  <<[Head(stored) EXCEPT !.ref = r]>> \o Parse(Tail(stored), used \cup {r})

\* list.filter(pred)
Filter(list, Keep(_)) == SelectSeq(list, Keep)

\* A write to a field of the object ref, seen in every list that holds it.
WriteIn(list, ref, Upd(_)) ==
    [i \in 1..Len(list) |-> IF list[i].ref = ref THEN Upd(list[i]) ELSE list[i]]

\* No object (undefined / null).
NoTask == Task(0, 0, "none", FALSE, 0)

\* list.find(t => t.id === taskId): the first match, or NoTask.
Find(list, taskId) ==
    IF \E i \in 1..Len(list) : list[i].id = taskId
    THEN list[CHOOSE i \in 1..Len(list) :
                 list[i].id = taskId /\ \A j \in 1..(i - 1) : list[j].id # taskId]
    ELSE NoTask

\* A lookup that answers with the first active task when no task has the id.
getFirstTask(taskId) ==
    IF \E t \in AllTasks : t.id = taskId
    THEN (IF Find(highPriorityTasks, taskId) # NoTask THEN Find(highPriorityTasks, taskId)
          ELSE IF Find(mediumPriorityTasks, taskId) # NoTask
               THEN Find(mediumPriorityTasks, taskId)
          ELSE Find(completedTasks, taskId))
    ELSE IF highPriorityTasks # <<>> THEN Head(highPriorityTasks)
    ELSE NoTask

getTaskById(taskId) ==
    IF Find(highPriorityTasks, taskId) # NoTask THEN Find(highPriorityTasks, taskId)
    ELSE IF Find(mediumPriorityTasks, taskId) # NoTask THEN Find(mediumPriorityTasks, taskId)
    ELSE Find(completedTasks, taskId)

getTasksByRecordingId(recordingId) ==
    [highPriorityTasks |-> Filter(highPriorityTasks, LAMBDA t : t.recordingId = recordingId),
     mediumPriorityTasks |-> Filter(mediumPriorityTasks, LAMBDA t : t.recordingId = recordingId),
     completedTasks |-> Filter(completedTasks, LAMBDA t : t.recordingId = recordingId)]

\* ------------------------------------------------------------------ storage
GetReq(who, key) == [who |-> who, type |-> "get", key |-> key, value |-> <<>>]
SetReq(who, key, value) == [who |-> who, type |-> "set", key |-> key, value |-> value]

\* The loader is requester 0; call c is requester c.
Loader == 0

\* What device storage may hold when the app starts: nothing, or the lists a
\* previous session saved.
StoredTask(id, priority, completed, recordingId) == Task(0, id, priority, completed, recordingId)

\* getItem's answer: null when the key was never set, else the stored string.
Absent == [present |-> FALSE, list |-> <<>>]
Stored(list) == [present |-> TRUE, list |-> list]

InitStores ==
    { [k \in StorageKeys |-> Absent],
      [k \in StorageKeys |->
          IF k = HighKey THEN Stored(<<StoredTask(101, "high", FALSE, 1)>>)
          ELSE Stored(<<>>)] }

\* -------------------------------------------------------------------- calls
\* A call's record holds what the running operation holds: its kind, its
\* argument (a task id or a recording id), where it stands (pc) and the ids it
\* returns (resp).  A call that has returned leaves its slot.
CallIds == 1..MaxPending
NoCall == [kind |-> "none", arg |-> 0, pc |-> "none", resp |-> {}]
Call(kind, arg, pc, resp) == [kind |-> kind, arg |-> arg, pc |-> pc, resp |-> resp]

\* history.invoked: the number of operations invoked so far.
\* history.latest: per recording, the ids the extraction applied last returned.
\* history.superseded: the ids of extractions that a later extraction for the
\* same recording has replaced.
\* history.ended: the operation that last ended without a save: its kind, its
\* argument and the message it rejected with, "" when it resolved.
\* history.requested: the task ids createEventForTask was invoked with, in order.
\* history.created: the task ids createEventForTask returned an event id for;
\* the k-th event created has id k.
NoEnd == [kind |-> "none", arg |-> 0, thrown |-> ""]
Ended(kind, arg, message) == [kind |-> kind, arg |-> arg, thrown |-> message]

NoHistory == [invoked |-> 0, latest |-> [r \in RecordingIds |-> {}], superseded |-> {},
              ended |-> NoEnd, requested |-> <<>>, created |-> <<>>]

Invoked(h) == [h EXCEPT !.invoked = h.invoked + 1]

\* An operation invoked that rejects, or resolves, before its first await.
Rejected(h, kind, arg, message) ==
    [h EXCEPT !.invoked = h.invoked + 1, !.ended = Ended(kind, arg, message)]

TaskNotFound == "Task not found"
ExtractionFailed == "Failed to extract tasks from transcript"

\* A new call takes the first free slot.
Free(c) ==
    /\ history.invoked < MaxCalls
    /\ calls[c].kind = "none"
    /\ \A d \in 1..(c - 1) : calls[d].kind # "none"


\* ---------------------------------------------------------------- saveTasks
\* The in-memory lists become h, m, d and saveTasks starts: it stringifies the
\* high-priority list and awaits setItem.
MutateAndSave(c, rec, h, m, d) ==
    /\ highPriorityTasks' = h
    /\ mediumPriorityTasks' = m
    /\ completedTasks' = d
    /\ storageQ' = Append(storageQ, SetReq(c, HighKey, Serialise(h)))
    /\ calls' = [calls EXCEPT ![c] = [rec EXCEPT !.pc = "saveHigh"]]

\* The in-memory list saveTasks stringifies for a key.
ListForWrongKey(key) ==
    IF key = HighKey THEN highPriorityTasks
    ELSE IF key = MediumKey THEN mediumPriorityTasks
    ELSE mediumPriorityTasks

ListFor(key) ==
    IF key = HighKey THEN highPriorityTasks
    ELSE IF key = MediumKey THEN mediumPriorityTasks
    ELSE completedTasks

Served(c, key) ==
    /\ storageQ # <<>>
    /\ Head(storageQ).who = c
    /\ Head(storageQ).key = key

\* saveTasks: setItem(high) is done; stringify the medium list, await setItem.
SaveHighDone(c) ==
    /\ calls[c].pc = "saveHigh"
    /\ Served(c, HighKey)
    /\ storage' = [storage EXCEPT ![HighKey] = Stored(Head(storageQ).value)]
    /\ storageQ' = Append(Tail(storageQ),
                          SetReq(c, MediumKey, Serialise(ListFor(MediumKey))))
    /\ calls' = [calls EXCEPT ![c].pc = "saveMedium"]
    /\ UNCHANGED notTask /\ UNCHANGED <<highPriorityTasks, mediumPriorityTasks, completedTasks, loadPc, nextId,
                   history>>

SaveMediumDone(c) ==
    /\ calls[c].pc = "saveMedium"
    /\ Served(c, MediumKey)
    /\ storage' = [storage EXCEPT ![MediumKey] = Stored(Head(storageQ).value)]
    /\ storageQ' = Append(Tail(storageQ),
                          SetReq(c, CompletedKey, Serialise(ListFor(CompletedKey))))
    /\ calls' = [calls EXCEPT ![c].pc = "saveCompleted"]
    /\ UNCHANGED notTask /\ UNCHANGED <<highPriorityTasks, mediumPriorityTasks, completedTasks, loadPc, nextId,
                   history>>

\* saveTasks returns, and with it the operation that awaited it.
SaveCompletedDone(c) ==
    /\ calls[c].pc = "saveCompleted"
    /\ Served(c, CompletedKey)
    /\ storage' = [storage EXCEPT ![CompletedKey] = Stored(Head(storageQ).value)]
    /\ storageQ' = Tail(storageQ)
    /\ calls' = [calls EXCEPT ![c] = NoCall]
    /\ UNCHANGED notTask /\ UNCHANGED <<highPriorityTasks, mediumPriorityTasks, completedTasks, loadPc, nextId,
                   history>>

\* ---------------------------------------------------------------- loadTasks
\* The list loadTasks assigns for a getItem answer: none for null or ''.
Loaded(answer, current, others) ==
    IF answer.present THEN Parse(answer.list, others) ELSE current

LoadHighDone ==
    /\ loadPc = "getHigh"
    /\ Served(Loader, HighKey)
    /\ highPriorityTasks' = Loaded(storage[HighKey], highPriorityTasks,
                                   RefsOf(mediumPriorityTasks) \cup RefsOf(completedTasks))
    /\ storageQ' = Append(Tail(storageQ), GetReq(Loader, MediumKey))
    /\ loadPc' = "getMedium"
    /\ UNCHANGED notTask /\ UNCHANGED <<mediumPriorityTasks, completedTasks, storage, calls, nextId, history>>

LoadMediumDone ==
    /\ loadPc = "getMedium"
    /\ Served(Loader, MediumKey)
    /\ mediumPriorityTasks' = Loaded(storage[MediumKey], mediumPriorityTasks,
                                     RefsOf(highPriorityTasks) \cup RefsOf(completedTasks))
    /\ storageQ' = Append(Tail(storageQ), GetReq(Loader, CompletedKey))
    /\ loadPc' = "getCompleted"
    /\ UNCHANGED notTask /\ UNCHANGED <<highPriorityTasks, completedTasks, storage, calls, nextId, history>>

LoadCompletedDone ==
    /\ loadPc = "getCompleted"
    /\ Served(Loader, CompletedKey)
    /\ completedTasks' = Loaded(storage[CompletedKey], completedTasks,
                                RefsOf(highPriorityTasks) \cup RefsOf(mediumPriorityTasks))
    /\ storageQ' = Tail(storageQ)
    /\ loadPc' = "done"
    /\ UNCHANGED notTask /\ UNCHANGED <<highPriorityTasks, mediumPriorityTasks, storage, calls, nextId, history>>

\* --------------------------------------------------------------- operations
\* The task ids a caller may name: the ids of the tasks in memory, and an id no
\* task has.
UnknownId == 0
TaskIdArgs == {t.id : t \in AllTasks} \cup {UnknownId}

\* The tasks addTask is called with: [priority, completed, recordingId], no id.
AddInputs == {[priority |-> "high", completed |-> FALSE, recordingId |-> 1],
              [priority |-> "medium", completed |-> TRUE, recordingId |-> 2]}

\* Partial<Task> values updateTask is called with.
Updates == {[priority |-> "high"], [priority |-> "medium"]}

\* Object.assign(task, updates)
Assign(task, updates) ==
    [f \in DOMAIN task |-> IF f \in DOMAIN updates THEN updates[f] ELSE task[f]]

Refs == RefsOf(highPriorityTasks) \cup RefsOf(mediumPriorityTasks)
          \cup RefsOf(completedTasks)

\* processTranscript up to its await of claudeApiService.processTranscript.
CallProcessTranscript(c, recordingId) ==
    /\ Free(c)
    /\ calls' = [calls EXCEPT ![c] = Call("processTranscript", recordingId, "extract", {})]
    /\ history' = Invoked(history)
    /\ UNCHANGED notTask /\ UNCHANGED <<highPriorityTasks, mediumPriorityTasks, completedTasks, storage,
                   storageQ, loadPc, nextId>>

\* The tasks of an extraction response: n new objects with ids from first on.
RECURSIVE NewTasks(_, _, _, _, _)
NewTasks(n, first, priority, recordingId, used) ==
    IF n = 0 THEN <<>>
    ELSE <<Task(NewRef(used), first, priority, FALSE, recordingId)>>
         \o NewTasks(n - 1, first + 1, priority, recordingId, used \cup {NewRef(used)})

\* A replacement that keeps no task of the list.
ReplaceAll(list, recordingId, new) == new

\* The lists after processTranscript replaced recordingId's active tasks.
ReplaceFor(list, recordingId, new) ==
    Filter(list, LAMBDA t : t.recordingId # recordingId) \o new

\* claudeApiService.processTranscript resolves with nh high- and nm medium-
\* priority tasks; processTranscript replaces the recording's tasks and saves.
ExtractDone(c, nh, nm) ==
    /\ calls[c].pc = "extract"
    /\ nextId + nh + nm <= MaxIds
    /\ LET r == calls[c].arg
           newHigh == NewTasks(nh, nextId + 1, "high", r, Refs)
           newMedium == NewTasks(nm, nextId + nh + 1, "medium", r, Refs \cup RefsOf(newHigh))
       IN  MutateAndSave(c, [calls[c] EXCEPT !.resp = (nextId + 1)..(nextId + nh + nm)],
                         ReplaceFor(highPriorityTasks, r, newHigh),
                         ReplaceFor(mediumPriorityTasks, r, newMedium),
                         completedTasks)
    /\ nextId' = nextId + nh + nm
    /\ history' = [history EXCEPT
                       !.superseded = @ \cup history.latest[calls[c].arg],
                       !.latest[calls[c].arg] = (nextId + 1)..(nextId + nh + nm)]
    /\ UNCHANGED notTask /\ UNCHANGED <<storage, loadPc>>

\* addTask for a task without an id.
CallAddTask(c, in) ==
    /\ Free(c)
    /\ nextId < MaxIds
    /\ LET task == Task(NewRef(Refs), nextId + 1, in.priority, in.completed, in.recordingId)
       IN  MutateAndSave(c, Call("addTask", nextId + 1, "saveHigh", {nextId + 1}),
                         IF task.priority = "high" THEN Append(highPriorityTasks, task)
                                                   ELSE highPriorityTasks,
                         IF task.priority = "high" THEN mediumPriorityTasks
                                                   ELSE Append(mediumPriorityTasks, task),
                         completedTasks)
    /\ nextId' = nextId + 1
    /\ history' = Invoked(history)
    /\ UNCHANGED notTask /\ UNCHANGED <<storage, loadPc>>

\* updateTask on an id no list holds: it returns null.
CallUpdateTaskNull(c, taskId) ==
    /\ Free(c)
    /\ getTaskById(taskId) = NoTask
    /\ history' = Rejected(history, "updateTask", taskId, "")
    /\ UNCHANGED notTask /\ UNCHANGED <<highPriorityTasks, mediumPriorityTasks, completedTasks, storage,
                   storageQ, loadPc, nextId, calls>>

CallUpdateTask(c, taskId, updates) ==
    /\ Free(c)
    /\ getTaskById(taskId) # NoTask
    /\ LET ref == getTaskById(taskId).ref
       IN  MutateAndSave(c, Call("updateTask", taskId, "saveHigh", {}),
                         WriteIn(highPriorityTasks, ref, LAMBDA t : Assign(t, updates)),
                         WriteIn(mediumPriorityTasks, ref, LAMBDA t : Assign(t, updates)),
                         WriteIn(completedTasks, ref, LAMBDA t : Assign(t, updates)))
    /\ history' = Invoked(history)
    /\ UNCHANGED notTask /\ UNCHANGED <<storage, loadPc, nextId>>

\* markTaskAsCompleted on an id no list holds: 'Task not found'.
CallMarkTaskAsCompletedNotFound(c, taskId) ==
    /\ Free(c)
    /\ getTaskById(taskId) = NoTask
    /\ history' = Rejected(history, "markTaskAsCompleted", taskId, TaskNotFound)
    /\ UNCHANGED notTask /\ UNCHANGED <<highPriorityTasks, mediumPriorityTasks, completedTasks, storage,
                   storageQ, loadPc, nextId, calls>>

\* The lists after markTaskAsCompleted(taskId) found task: the object is marked,
\* one active list is filtered by the task's priority, the object is pushed.
MarkedHigh(task, taskId) ==
    LET h == WriteIn(highPriorityTasks, task.ref, LAMBDA t : [t EXCEPT !.completed = TRUE])
    IN  IF task.priority = "high" THEN Filter(h, LAMBDA t : t.id # taskId) ELSE h

MarkedMedium(task, taskId) ==
    LET m == WriteIn(mediumPriorityTasks, task.ref, LAMBDA t : [t EXCEPT !.completed = TRUE])
    IN  IF task.priority = "high" THEN m ELSE Filter(m, LAMBDA t : t.id # taskId)

MarkedCompleted(task) ==
    Append(WriteIn(completedTasks, task.ref, LAMBDA t : [t EXCEPT !.completed = TRUE]),
           [task EXCEPT !.completed = TRUE])

CallMarkTaskAsCompleted(c, taskId) ==
    /\ Free(c)
    /\ getTaskById(taskId) # NoTask
    /\ Len(completedTasks) < MaxCompleted
    /\ LET task == getTaskById(taskId)
       IN  MutateAndSave(c, Call("markTaskAsCompleted", taskId, "saveHigh", {}),
                         MarkedHigh(task, taskId), MarkedMedium(task, taskId),
                         MarkedCompleted(task))
    /\ history' = Invoked(history)
    /\ UNCHANGED notTask /\ UNCHANGED <<storage, loadPc, nextId>>

CallDeleteTask(c, taskId) ==
    /\ Free(c)
    /\ MutateAndSave(c, Call("deleteTask", taskId, "saveHigh", {}),
                     Filter(highPriorityTasks, LAMBDA t : t.id # taskId),
                     Filter(mediumPriorityTasks, LAMBDA t : t.id # taskId),
                     Filter(completedTasks, LAMBDA t : t.id # taskId))
    /\ history' = Invoked(history)
    /\ UNCHANGED notTask /\ UNCHANGED <<storage, loadPc, nextId>>

CallClearAllTasks(c) ==
    /\ Free(c)
    /\ MutateAndSave(c, Call("clearAllTasks", 0, "saveHigh", {}), <<>>, <<>>, <<>>)
    /\ history' = Invoked(history)
    /\ UNCHANGED notTask /\ UNCHANGED <<storage, loadPc, nextId>>

\* claudeApiService.processTranscript rejects: the catch block rethrows.
ExtractFailed(c) ==
    /\ calls[c].pc = "extract"
    /\ calls' = [calls EXCEPT ![c] = NoCall]
    /\ history' = [history EXCEPT !.ended = Ended("processTranscript", calls[c].arg, ExtractionFailed)]
    /\ UNCHANGED notTask /\ UNCHANGED <<highPriorityTasks, mediumPriorityTasks, completedTasks, storage,
                   storageQ, loadPc, nextId>>

\* ---------------------------------------------------------------- calendar
\* How often taskId occurs in a sequence of task ids.
Times(seq, taskId) == Cardinality({i \in 1..Len(seq) : seq[i] = taskId})

\* addTaskToCalendar on an id no list holds: 'Task not found'.
CallAddTaskToCalendarNotFound(c, taskId) ==
    /\ Free(c)
    /\ getTaskById(taskId) = NoTask
    /\ history' = Rejected(history, "addTaskToCalendar", taskId, TaskNotFound)
    /\ UNCHANGED notTask /\ UNCHANGED <<highPriorityTasks, mediumPriorityTasks, completedTasks, storage,
                   storageQ, loadPc, nextId, calls>>

\* addTaskToCalendar on a task that has a calendarEventId: it returns that id.
CallAddTaskToCalendarHasEvent(c, taskId) ==
    /\ Free(c)
    /\ getTaskById(taskId) # NoTask
    /\ getTaskById(taskId).calendarEventId # 0
    /\ history' = Rejected(history, "addTaskToCalendar", taskId, "")
    /\ UNCHANGED notTask /\ UNCHANGED <<highPriorityTasks, mediumPriorityTasks, completedTasks, storage,
                   storageQ, loadPc, nextId, calls>>

\* addTaskToCalendar up to its await of googleCalendarService.createEventForTask.
CallAddTaskToCalendar(c, taskId) ==
    /\ Free(c)
    /\ getTaskById(taskId) # NoTask
    /\ getTaskById(taskId).calendarEventId = 0
    /\ calls' = [calls EXCEPT ![c] = Call("addTaskToCalendar", taskId, "createEvent", {})]
    /\ history' = [Invoked(history) EXCEPT !.requested = Append(@, taskId)]
    /\ UNCHANGED notTask /\ UNCHANGED <<highPriorityTasks, mediumPriorityTasks, completedTasks, storage,
                   storageQ, loadPc, nextId>>

\* createEventForTask rejects (not signed in, no date, request failed).
CreateEventFailed(c) ==
    /\ calls[c].pc = "createEvent"
    /\ calls' = [calls EXCEPT ![c] = NoCall]
    /\ history' = [history EXCEPT !.ended = Ended("addTaskToCalendar", calls[c].arg, "Not signed in to Google")]
    /\ UNCHANGED notTask /\ UNCHANGED <<highPriorityTasks, mediumPriorityTasks, completedTasks, storage,
                   storageQ, loadPc, nextId>>

\* updateTaskWithCalendarEvent from its start to saveTasks' first await.
SetCalendarEvent(c, rec, taskId, calendarEventId) ==
    LET ref == getTaskById(taskId).ref
        Upd(t) == [t EXCEPT !.calendarEventId = calendarEventId]
    IN  MutateAndSave(c, rec, WriteIn(highPriorityTasks, ref, Upd),
                      WriteIn(mediumPriorityTasks, ref, Upd),
                      WriteIn(completedTasks, ref, Upd))

\* createEventForTask returns the id of the event it created, the task is
\* still there: updateTaskWithCalendarEvent writes the id and saves.
CreateEventDone(c) ==
    /\ calls[c].pc = "createEvent"
    /\ getTaskById(calls[c].arg) # NoTask
    /\ SetCalendarEvent(c, calls[c], calls[c].arg, Len(history.created) + 1)
    /\ history' = [history EXCEPT !.created = Append(@, calls[c].arg)]
    /\ UNCHANGED notTask /\ UNCHANGED <<storage, loadPc, nextId>>

\* createEventForTask returns an id, the task is gone meanwhile:
\* updateTaskWithCalendarEvent throws 'Task not found'.
CreateEventDoneTaskGone(c) ==
    /\ calls[c].pc = "createEvent"
    /\ getTaskById(calls[c].arg) = NoTask
    /\ calls' = [calls EXCEPT ![c] = NoCall]
    /\ history' = [history EXCEPT !.created = Append(@, calls[c].arg), 
                       !.ended = Ended("addTaskToCalendar", calls[c].arg, TaskNotFound)]
    /\ UNCHANGED notTask /\ UNCHANGED <<highPriorityTasks, mediumPriorityTasks, completedTasks, storage,
                   storageQ, loadPc, nextId>>

\* An event id updateTaskWithCalendarEvent is called with from outside.
GivenEventId == 9

\* updateTaskWithCalendarEvent on an id no list holds: 'Task not found'.
CallUpdateTaskWithCalendarEventNotFound(c, taskId) ==
    /\ Free(c)
    /\ getTaskById(taskId) = NoTask
    /\ history' = Rejected(history, "updateTaskWithCalendarEvent", taskId, TaskNotFound)
    /\ UNCHANGED notTask /\ UNCHANGED <<highPriorityTasks, mediumPriorityTasks, completedTasks, storage,
                   storageQ, loadPc, nextId, calls>>

CallUpdateTaskWithCalendarEvent(c, taskId) ==
    /\ Free(c)
    /\ getTaskById(taskId) # NoTask
    /\ SetCalendarEvent(c, Call("updateTaskWithCalendarEvent", taskId, "saveHigh", {}),
                        taskId, GivenEventId)
    /\ history' = Invoked(history)
    /\ UNCHANGED notTask /\ UNCHANGED <<storage, loadPc, nextId>>

\* ----------------------------------------------------------- specification
TaskInit ==
    /\ NotTaskIdle
    /\ highPriorityTasks = <<>>
    /\ mediumPriorityTasks = <<>>
    /\ completedTasks = <<>>
    /\ storage \in InitStores
    /\ storageQ = <<GetReq(Loader, HighKey)>>
    /\ loadPc = "getHigh"
    /\ calls = [c \in CallIds |-> NoCall]
    /\ nextId = 0
    /\ history = NoHistory

\* The operations and their saveTasks steps.
OpsNext ==
    \/ \E c \in CallIds : SaveHighDone(c)
    \/ \E c \in CallIds : SaveMediumDone(c)
    \/ \E c \in CallIds : SaveCompletedDone(c)
    \/ \E c \in CallIds, r \in RecordingIds : CallProcessTranscript(c, r)
    \/ \E c \in CallIds, nh \in 0..MaxExtract, nm \in 0..MaxExtract : ExtractDone(c, nh, nm)
    \/ \E c \in CallIds, in \in AddInputs : CallAddTask(c, in)
    \/ \E c \in CallIds, t \in TaskIdArgs : CallUpdateTaskNull(c, t)
    \/ \E c \in CallIds, t \in TaskIdArgs, u \in Updates : CallUpdateTask(c, t, u)
    \/ \E c \in CallIds, t \in TaskIdArgs : CallMarkTaskAsCompletedNotFound(c, t)
    \/ \E c \in CallIds, t \in TaskIdArgs : CallMarkTaskAsCompleted(c, t)
    \/ \E c \in CallIds, t \in TaskIdArgs : CallDeleteTask(c, t)
    \/ \E c \in CallIds : CallClearAllTasks(c)
    \/ \E c \in CallIds : ExtractFailed(c)
    \/ \E c \in CallIds, t \in TaskIdArgs : CallAddTaskToCalendarNotFound(c, t)
    \/ \E c \in CallIds, t \in TaskIdArgs : CallAddTaskToCalendarHasEvent(c, t)
    \/ \E c \in CallIds, t \in TaskIdArgs : CallAddTaskToCalendar(c, t)
    \/ \E c \in CallIds : CreateEventFailed(c)
    \/ \E c \in CallIds : CreateEventDone(c)
    \/ \E c \in CallIds : CreateEventDoneTaskGone(c)
    \/ \E c \in CallIds, t \in TaskIdArgs : CallUpdateTaskWithCalendarEventNotFound(c, t)
    \/ \E c \in CallIds, t \in TaskIdArgs : CallUpdateTaskWithCalendarEvent(c, t)

TaskNext ==
    \/ LoadHighDone
    \/ LoadMediumDone
    \/ LoadCompletedDone
    \/ OpsNext

SpecTask == TaskInit /\ [][TaskNext]_vars

\* The service once the constructor's loadTasks has finished with no operation
\* invoked meanwhile: the lists are the stored ones.
LoadedInit ==
    \E st \in InitStores :
        LET h == Loaded(st[HighKey], <<>>, {})
            m == Loaded(st[MediumKey], <<>>, RefsOf(h))
            d == Loaded(st[CompletedKey], <<>>, RefsOf(h) \cup RefsOf(m))
        IN  /\ NotTaskIdle
            /\ highPriorityTasks = h
            /\ mediumPriorityTasks = m
            /\ completedTasks = d
            /\ storage = st
            /\ storageQ = <<>>
            /\ loadPc = "done"
            /\ calls = [c \in CallIds |-> NoCall]
            /\ nextId = 0
            /\ history = NoHistory

SpecTaskLoaded == LoadedInit /\ [][OpsNext]_vars

\* -------------------------------------------------------------------- dates
\* A Date: year, month (0 is January) and day of the month.
Date(year, month, date) == [year |-> year, month |-> month, date |-> date]

IsLeap(year) == (year % 4 = 0 /\ year % 100 # 0) \/ year % 400 = 0

DaysInMonth(year, month) ==
    IF month = 1 THEN (IF IsLeap(year) THEN 29 ELSE 28)
    ELSE IF month \in {3, 5, 8, 10} THEN 30 ELSE 31

\* Date.prototype.setDate: a day past the end of the month rolls over into the
\* following months.
RECURSIVE setDate(_, _)
setDate(d, day) ==
    IF day <= DaysInMonth(d.year, d.month)
    THEN [d EXCEPT !.date = day]
    ELSE setDate(IF d.month = 11 THEN Date(d.year + 1, 0, 1)
                                 ELSE Date(d.year, d.month + 1, 1),
                 day - DaysInMonth(d.year, d.month))

\* formatDate: YYYY-MM-DD, the month counted from 1.
formatDate(d) == <<d.year, d.month + 1, d.date>>

\* The days on which mockProcessTranscript may run.
Dates == {Date(2025, 2, 10), Date(2024, 11, 28)}

\* --------------------------------------------------- mockProcessTranscript
MockTask(id, title, priority, date, time, duration, rec, subTasks) ==
    [id |-> id, title |-> title, priority |-> priority, date |-> date,
     time |-> time, duration |-> duration, completed |-> FALSE,
     recordingId |-> rec, subTasks |-> subTasks]

\* The conditions of the five rules, on the lower-cased transcript.
MatchesTax(t) == includes(t, KwTax)
MatchesVet(t) == includes(t, KwDog) /\ (includes(t, KwVet) \/ includes(t, KwDoctor))
MatchesLicense(t) == includes(t, KwDriver) /\ includes(t, KwLicense)
MatchesYard(t) == includes(t, KwYard) \/ includes(t, KwWaste) \/ includes(t, KwDispose)
\* A vacation rule that looks for 'vacation' only.
MatchesVacationWord(t) == includes(t, KwVacation)

MatchesVacation(t) ==
    includes(t, KwVacation) \/ includes(t, KwBurntOut) \/ includes(t, KwBurnout)

Count(b) == IF b THEN 1 ELSE 0

\* The rules run in this order; the vet and license rules move `today` with
\* setDate, the vacation rule moves `nextWeek`.  Ids are handed out in the
\* order the tasks are built.
mockProcessTranscript(text, rec, now) ==
    LET t == toLowerCase(text)
        tax == MatchesTax(t)
        vet == MatchesVet(t)
        lic == MatchesLicense(t)
        yard == MatchesYard(t)
        vac == MatchesVacation(t)
        nextWeek0 == setDate(now, now.date + 7)
        today1 == IF vet THEN setDate(now, now.date + 2) ELSE now
        today2 == IF lic THEN setDate(today1, today1.date + 5) ELSE today1
        nextWeek1 == IF vac THEN setDate(nextWeek0, nextWeek0.date + 7) ELSE nextWeek0
        idVet == 1 + Count(tax)
        idLic == idVet + Count(vet)
        idYard == idLic + Count(lic)
        idVac == idYard + Count(yard)
        high ==
            (IF tax THEN <<MockTask(1, "File your taxes", "high",
                                    formatDate(now), "18:00", 120, rec, <<>>)>>
             ELSE <<>>)
            \o (IF vet THEN <<MockTask(idVet, "Take your dog to the vet", "high",
                                       formatDate(today1), "18:00", 60, rec, <<>>)>>
                ELSE <<>>)
            \o (IF lic THEN <<MockTask(idLic, "Help with driver's license", "high",
                                       formatDate(today2), "10:00", 90, rec, <<>>)>>
                ELSE <<>>)
        medium ==
            (IF yard THEN <<MockTask(idYard, "Dispose of yard waste", "medium",
                                     formatDate(nextWeek0), "null", 60, rec,
                                     <<"Research disposal options",
                                       "Schedule pickup or dropoff">>)>>
             ELSE <<>>)
            \o (IF vac THEN <<MockTask(idVac, "Plan vacation for burnout recovery", "medium",
                                       formatDate(nextWeek1), "null", 120, rec,
                                       <<"Research destinations",
                                         "Check available time off">>)>>
                ELSE <<>>)
    IN  IF high = <<>> /\ medium = <<>>
        THEN [highPriorityTasks |->
                  <<MockTask(1, "Review your priorities", "high",
                             formatDate(today2), "18:00", 30, rec, <<>>)>>,
              mediumPriorityTasks |-> <<>>]
        ELSE [highPriorityTasks |-> high, mediumPriorityTasks |-> medium]

NoResult == [highPriorityTasks |-> <<>>, mediumPriorityTasks |-> <<>>]

\* Transcripts: up to MaxWords phrases joined by spaces.
Transcripts ==
    {Join(ws) : ws \in UNION {[1..n -> Vocabulary] : n \in 0..MaxWords}}

\* ------------------------------------------- ClaudeApiService.processTranscript
Envs == {"production", "development", "staging"}
NoKey == "null"
KeyStates == {NoKey, "sk-ant-key"}

\* The text of a model response is a sequence of pieces: prose (no brace, no
\* fence), a lone brace, the opening ```json\n or closing \n``` of a fence, or
\* the text of one complete JSON object.
Piece(kind, hasHigh, hasMedium, high, medium) ==
    [kind |-> kind, hasHigh |-> hasHigh, hasMedium |-> hasMedium,
     high |-> high, medium |-> medium]
Plain(kind) == Piece(kind, FALSE, FALSE, <<>>, <<>>)
Prose == Plain("prose")
LBrace == Plain("{")
RBrace == Plain("}")
FenceOpen == Plain("fenceOpen")
FenceClose == Plain("fenceClose")

\* A task as the model writes it.
JsonTask(title, priority, completed, rec) ==
    [title |-> title, priority |-> priority, completed |-> completed, recordingId |-> rec]

\* {"highPriorityTasks": [...], "mediumPriorityTasks": [...]}
JsonBoth ==
    Piece("json", TRUE, TRUE,
          <<JsonTask("Call the bank", "high", TRUE, 0),
            JsonTask("Renew passport", "high", FALSE, 0)>>,
          <<JsonTask("Buy paint", "medium", FALSE, 2)>>)
\* {"highPriorityTasks": [...]}
JsonNoMedium ==
    Piece("json", TRUE, FALSE, <<JsonTask("Call the bank", "high", FALSE, 0)>>, <<>>)
\* {}
JsonNeither == Piece("json", FALSE, FALSE, <<>>, <<>>)

Pieces == {Prose, LBrace, RBrace, FenceOpen, FenceClose, JsonBoth, JsonNoMedium}
Texts == UNION {[1..n -> Pieces] : n \in 1..MaxText}

NoMatch == [found |-> FALSE, whole |-> <<>>, group |-> <<>>]

\* responseText.match(/```json\n([\s\S]*?)\n```/): the leftmost opening fence
\* that has a closing fence after it, up to the nearest closing fence.
FenceMatch(text) ==
    LET Closes(i) == {j \in (i + 1)..Len(text) : text[j] = FenceClose}
        opens == {i \in 1..Len(text) : text[i] = FenceOpen /\ Closes(i) # {}}
    IN  IF opens = {} THEN NoMatch
        ELSE LET i == CHOOSE x \in opens : \A y \in opens : x <= y
                 j == CHOOSE x \in Closes(i) : \A y \in Closes(i) : x <= y
             IN  [found |-> TRUE, whole |-> SubSeq(text, i, j),
                  group |-> SubSeq(text, i + 1, j - 1)]

\* responseText.match(/{[\s\S]*}/): from the first opening brace to the last
\* closing brace of the text.  A JSON object opens and closes with a brace.
BraceMatch(text) ==
    LET opens == {i \in 1..Len(text) : text[i].kind \in {"{", "json"}}
        closes == {j \in 1..Len(text) : text[j].kind \in {"}", "json"}}
    IN  IF opens = {} \/ closes = {} THEN NoMatch
        ELSE LET i == CHOOSE x \in opens : \A y \in opens : x <= y
                 j == CHOOSE x \in closes : \A y \in closes : y <= x
             IN  IF j > i \/ (j = i /\ text[i].kind = "json")
                 THEN [found |-> TRUE, whole |-> SubSeq(text, i, j), group |-> <<>>]
                 ELSE NoMatch

\* jsonMatch: the fence if there is one, else the braces.
JsonMatch(text) == IF FenceMatch(text).found THEN FenceMatch(text) ELSE BraceMatch(text)

\* jsonMatch[1] || jsonMatch[0]: an empty or absent group gives the whole match.
JsonContent(m) == IF m.group # <<>> THEN m.group ELSE m.whole

\* JSON.parse: the content must be one JSON value; "{" "}" is the empty object.
JsonParses(content) ==
    \/ Len(content) = 1 /\ content[1].kind = "json"
    \/ content = <<LBrace, RBrace>>
JsonParse(content) == IF Len(content) = 1 THEN content[1] ELSE JsonNeither

\* forEach(task => { task.recordingId = recordingId; task.completed = false })
Stamp(tasks, rec) ==
    [i \in 1..Len(tasks) |-> [tasks[i] EXCEPT !.recordingId = rec, !.completed = FALSE]]

\* An Extract that returns whatever parsed, arrays or not.
ExtractUnchecked(text, rec) ==
    LET m == JsonMatch(text) IN
    IF m.found /\ JsonParses(JsonContent(m))
    THEN [ok |-> TRUE, cause |-> "none",
          result |-> [highPriorityTasks |-> Stamp(JsonParse(JsonContent(m)).high, rec),
                      mediumPriorityTasks |-> Stamp(JsonParse(JsonContent(m)).medium, rec)]]
    ELSE [ok |-> FALSE, cause |-> "parse", result |-> NoResult]

\* What the production path does with the response text: the parsed result, or
\* the error that sends it to the catch block.
Extract(text, rec) ==
    LET m == JsonMatch(text) IN
    IF ~m.found THEN [ok |-> FALSE, cause |-> "noJson", result |-> NoResult]
    ELSE IF ~JsonParses(JsonContent(m))
         THEN [ok |-> FALSE, cause |-> "parse", result |-> NoResult]
    ELSE LET parsed == JsonParse(JsonContent(m)) IN
         IF ~parsed.hasHigh \/ ~parsed.hasMedium
         THEN [ok |-> FALSE, cause |-> "noArrays", result |-> NoResult]
         ELSE [ok |-> TRUE, cause |-> "none",
               result |-> [highPriorityTasks |-> Stamp(parsed.high, rec),
                           mediumPriorityTasks |-> Stamp(parsed.medium, rec)]]

\* A check that takes only 'development' for a mock environment.
DevelopmentOnly(e) == e = "development"

\* if (ENV.ENVIRONMENT !== 'production') return this.mockProcessTranscript(...)
MockOnly(e) == e # "production"

\* processTranscript is called and runs to its first await.
CallApiProcessTranscript ==
    /\ apiPc = "idle"
    /\ IF MockOnly(env)
       THEN apiPc' = "mockDelay" /\ UNCHANGED keyReads
       ELSE apiPc' = "getApiKey" /\ keyReads' = keyReads + 1
    /\ UNCHANGED notApi
    /\ UNCHANGED <<env, apiKey, apiTranscript, apiRecordingId, today, responseText,
                   apiResult, apiCause, sttPc, audioUri, sttResult, requests>>

\* getApiKey returns: without a key it throws and the catch block falls back to
\* the heuristic, with a key the request is posted.
GetApiKeyDone ==
    /\ apiPc = "getApiKey"
    /\ IF apiKey = NoKey
       THEN apiPc' = "mockDelay" /\ apiCause' = "noKey" /\ UNCHANGED requests
       ELSE apiPc' = "post" /\ requests' = requests + 1 /\ UNCHANGED apiCause
    /\ UNCHANGED notApi
    /\ UNCHANGED <<env, apiKey, apiTranscript, apiRecordingId, today, responseText,
                   apiResult, sttPc, audioUri, sttResult, keyReads>>

\* axios.post rejects (network error, error status).
PostFailed ==
    /\ apiPc = "post"
    /\ apiPc' = "mockDelay"
    /\ apiCause' = "http"
    /\ UNCHANGED notApi
    /\ UNCHANGED <<env, apiKey, apiTranscript, apiRecordingId, today, responseText,
                   apiResult, sttPc, audioUri, sttResult, requests, keyReads>>

\* axios.post resolves with a response whose text is `text`.
PostDone(text) ==
    /\ apiPc = "post"
    /\ responseText' = text
    /\ LET x == Extract(text, apiRecordingId) IN
       IF x.ok
       THEN apiPc' = "done" /\ apiResult' = x.result /\ UNCHANGED apiCause
       ELSE apiPc' = "mockDelay" /\ apiCause' = x.cause /\ UNCHANGED apiResult
    /\ UNCHANGED notApi
    /\ UNCHANGED <<env, apiKey, apiTranscript, apiRecordingId, today,
                   sttPc, audioUri, sttResult, requests, keyReads>>

\* mockProcessTranscript is called directly.
CallMockProcessTranscript ==
    /\ apiPc = "idle"
    /\ apiPc' = "mockDelay"
    /\ UNCHANGED notApi
    /\ UNCHANGED <<env, apiKey, apiTranscript, apiRecordingId, today, responseText,
                   apiResult, apiCause, sttPc, audioUri, sttResult, requests, keyReads>>

\* mockProcessTranscript's delay is over: it builds its tasks and returns.
MockReturn ==
    /\ apiPc = "mockDelay"
    /\ apiPc' = "done"
    /\ apiResult' = mockProcessTranscript(apiTranscript, apiRecordingId, today)
    /\ UNCHANGED notApi
    /\ UNCHANGED <<env, apiKey, apiTranscript, apiRecordingId, today, responseText,
                   apiCause, sttPc, audioUri, sttResult, requests, keyReads>>

\* ------------------------------------------ useSpeechToText.startTranscription
MockPrefix == <<"f", "i", "l", "e", ":", "/", "/", "/", "m", "o", "c", "k", "/">>
\* An absent audioUri is the empty string: both are falsy.
NoUri == <<>>
AudioUris ==
    { NoUri,
      <<"f", "i", "l", "e", ":", "/", "/", "/", "m", "o", "c", "k", "/", "r", "e", "c", "1", ".", "m", "4", "a">>,
      <<"f", "i", "l", "e", ":", "/", "/", "/", "m", "o", "c", "k">>,
      <<"f", "i", "l", "e", ":", "/", "/", "/", "d", "a", "t", "a", "/", "r", "e", "c", "1", ".", "m", "4", "a">> }

\* ENV.ENVIRONMENT === 'production' && audioUri && !audioUri.startsWith('file:///mock/')
UseWhisper(e, uri) == e = "production" /\ uri # NoUri /\ ~startsWith(uri, MockPrefix)

\* startTranscription is called and runs to its first await.
CallStartTranscription ==
    /\ sttPc = "idle"
    /\ IF UseWhisper(env, audioUri)
       THEN sttPc' = "getKey" /\ keyReads' = keyReads + 1
       ELSE sttPc' = "simulate" /\ UNCHANGED keyReads
    /\ UNCHANGED notApi
    /\ UNCHANGED <<env, apiKey, apiPc, apiTranscript, apiRecordingId, today, responseText,
                   apiResult, apiCause, audioUri, sttResult, requests>>

\* transcribeWithWhisperAPI has read its key: without one it throws, with one
\* it posts the audio.
WhisperKeyDone(found) ==
    /\ sttPc = "getKey"
    /\ IF found
       THEN sttPc' = "post" /\ requests' = requests + 1 /\ UNCHANGED sttResult
       ELSE sttPc' = "failed" /\ sttResult' = "error" /\ UNCHANGED requests
    /\ UNCHANGED notApi
    /\ UNCHANGED <<env, apiKey, apiPc, apiTranscript, apiRecordingId, today, responseText,
                   apiResult, apiCause, audioUri, keyReads>>

\* The Whisper request is answered, with text or without.
WhisperPostDone(hasText) ==
    /\ sttPc = "post"
    /\ IF hasText
       THEN sttPc' = "done" /\ sttResult' = "whisper"
       ELSE sttPc' = "failed" /\ sttResult' = "error"
    /\ UNCHANGED notApi
    /\ UNCHANGED <<env, apiKey, apiPc, apiTranscript, apiRecordingId, today, responseText,
                   apiResult, apiCause, audioUri, requests, keyReads>>

\* simulateTranscription has shown its fixed transcript.
SimulateDone ==
    /\ sttPc = "simulate"
    /\ sttPc' = "done"
    /\ sttResult' = "simulated"
    /\ UNCHANGED notApi
    /\ UNCHANGED <<env, apiKey, apiPc, apiTranscript, apiRecordingId, today, responseText,
                   apiResult, apiCause, audioUri, requests, keyReads>>

\* ------------------------------------------------------------ specifications
\* The heuristic on every transcript and day.
MockInit ==
    /\ NotApiIdle
    /\ env = "development"
    /\ apiKey = NoKey
    /\ apiPc = "idle"
    /\ apiTranscript \in Transcripts
    /\ apiRecordingId = 1
    /\ today \in Dates
    /\ responseText = <<>>
    /\ apiResult = NoResult
    /\ apiCause = "none"
    /\ sttPc = "off"
    /\ audioUri = NoUri
    /\ sttResult = "none"
    /\ requests = 0
    /\ keyReads = 0

MockNext == CallMockProcessTranscript \/ MockReturn

SpecMock == MockInit /\ [][MockNext]_vars

\* processTranscript and startTranscription in every environment.
ApiTranscripts == {<<"w", "a", "l", "k">>, <<"m", "y", " ", "T", "a", "x", "e", "s", " ", "d", "o", "g", " ", "v", "e", "t">>}

ApiInit ==
    /\ NotApiIdle
    /\ env \in Envs
    /\ apiKey \in KeyStates
    /\ apiPc = "idle"
    /\ apiTranscript \in ApiTranscripts
    /\ apiRecordingId = 1
    /\ today = Date(2025, 2, 10)
    /\ responseText = <<>>
    /\ apiResult = NoResult
    /\ apiCause = "none"
    /\ sttPc = "idle"
    /\ audioUri \in AudioUris
    /\ sttResult = "none"
    /\ requests = 0
    /\ keyReads = 0

ApiNext ==
    \/ CallApiProcessTranscript
    \/ GetApiKeyDone
    \/ PostFailed
    \/ \E text \in Texts : PostDone(text)
    \/ MockReturn
    \/ CallStartTranscription
    \/ \E found \in BOOLEAN : WhisperKeyDone(found)
    \/ \E hasText \in BOOLEAN : WhisperPostDone(hasText)
    \/ SimulateDone

SpecApi == ApiInit /\ [][ApiNext]_vars

\* ------------------------------------------------------ GoogleCalendarService
NoToken == "null"
Token == "ya29.token"
Callers == {"user", "event"}
NotSignedInError == "Not signed in to Google"
NoDateError == "Task must have a date"

\* createEventForTask from its second token test on: it throws when there is
\* no token or the task has no date, and posts the event otherwise.
AfterSignInTest(token) ==
    IF token = NoToken THEN [pc |-> "idle", outcome |-> NotSignedInError, posted |-> 0]
    ELSE IF ~evHasDate THEN [pc |-> "idle", outcome |-> NoDateError, posted |-> 0]
    ELSE [pc |-> "create.post", outcome |-> "none", posted |-> 1]

\* signIn returns to its caller: the Settings screen is done, createEventForTask
\* goes on to its token test.
SignInReturns(who, token) ==
    IF who = "user"
    THEN /\ calPc' = [calPc EXCEPT ![who] = "idle"]
         /\ UNCHANGED <<evOutcome, eventsPosted>>
    ELSE /\ calPc' = [calPc EXCEPT ![who] = AfterSignInTest(token).pc]
         /\ evOutcome' = AfterSignInTest(token).outcome
         /\ eventsPosted' = eventsPosted + AfterSignInTest(token).posted

\* Settings: signIn() is called; initialize() configures GoogleSignin and
\* GoogleSignin.isSignedIn() is awaited.
CallSignIn ==
    /\ calPc["user"] = "idle"
    /\ isInitialized' = TRUE
    /\ calPc' = [calPc EXCEPT !["user"] = "signIn.check"]
    /\ UNCHANGED notCal
    /\ UNCHANGED <<accessToken, nativeSignedIn, evHasDate, evSignedIn, evOutcome,
                   eventsPosted, sessions>>

\* signIn: GoogleSignin.isSignedIn() has answered.
SignInChecked(who) ==
    /\ calPc[who] = "signIn.check"
    /\ calPc' = [calPc EXCEPT ![who] = IF nativeSignedIn THEN "signIn.tokens" ELSE "signIn.flow"]
    /\ UNCHANGED notCal
    /\ UNCHANGED <<isInitialized, accessToken, nativeSignedIn, evHasDate, evSignedIn,
                   evOutcome, eventsPosted, sessions>>

\* signIn: the sign-in flow ends; when it fails signIn returns false.
SignInFlowDone(who, ok) ==
    /\ calPc[who] = "signIn.flow"
    /\ IF ok
       THEN /\ nativeSignedIn' = TRUE
            /\ calPc' = [calPc EXCEPT ![who] = "signIn.tokens"]
            /\ UNCHANGED <<evOutcome, eventsPosted>>
       ELSE /\ UNCHANGED nativeSignedIn
            /\ SignInReturns(who, accessToken)
    /\ UNCHANGED notCal
    /\ UNCHANGED <<isInitialized, accessToken, evHasDate, evSignedIn, sessions>>

\* signIn: getTokens answers, which it can only for a signed-in user; the
\* token is kept.  When it throws signIn returns false.
SignInTokens(who, ok) ==
    /\ calPc[who] = "signIn.tokens"
    /\ ok => nativeSignedIn
    /\ IF ok
       THEN /\ accessToken' = Token
            /\ calPc' = [calPc EXCEPT ![who] = "signIn.timezone"]
            /\ UNCHANGED <<evOutcome, eventsPosted>>
       ELSE /\ UNCHANGED accessToken
            /\ SignInReturns(who, accessToken)
    /\ UNCHANGED notCal
    /\ UNCHANGED <<isInitialized, nativeSignedIn, evHasDate, evSignedIn, sessions>>

\* signIn: the refresh token is stored and the time zone fetched; it returns true.
SignInDone(who) ==
    /\ calPc[who] = "signIn.timezone"
    /\ SignInReturns(who, accessToken)
    /\ UNCHANGED notCal
    /\ UNCHANGED <<isInitialized, accessToken, nativeSignedIn, evHasDate, evSignedIn, sessions>>

\* Settings: signOut() is called and awaits revokeAccess.
CallSignOut ==
    /\ calPc["user"] = "idle"
    /\ calPc' = [calPc EXCEPT !["user"] = "signOut.revoke"]
    /\ UNCHANGED notCal
    /\ UNCHANGED <<isInitialized, accessToken, nativeSignedIn, evHasDate, evSignedIn,
                   evOutcome, eventsPosted, sessions>>

\* signOut: revokeAccess ends; when it throws signOut returns false.
SignOutRevoked(ok) ==
    /\ calPc["user"] = "signOut.revoke"
    /\ calPc' = [calPc EXCEPT !["user"] = IF ok THEN "signOut.native" ELSE "idle"]
    /\ UNCHANGED notCal
    /\ UNCHANGED <<isInitialized, accessToken, nativeSignedIn, evHasDate, evSignedIn,
                   evOutcome, eventsPosted, sessions>>

\* signOut: GoogleSignin.signOut ends and the token is dropped.
SignOutNative ==
    /\ calPc["user"] = "signOut.native"
    /\ nativeSignedIn' = FALSE
    /\ accessToken' = NoToken
    /\ calPc' = [calPc EXCEPT !["user"] = "signOut.delete"]
    /\ UNCHANGED notCal
    /\ UNCHANGED <<isInitialized, evHasDate, evSignedIn, evOutcome, eventsPosted, sessions>>

\* signOut: the refresh token is deleted; it returns true.
SignOutDone ==
    /\ calPc["user"] = "signOut.delete"
    /\ calPc' = [calPc EXCEPT !["user"] = "idle"]
    /\ UNCHANGED notCal
    /\ UNCHANGED <<isInitialized, accessToken, nativeSignedIn, evHasDate, evSignedIn,
                   evOutcome, eventsPosted, sessions>>

\* Tasks screen: handlePushToCalendar is called for a task and awaits
\* googleCalendarService.isSignedIn().
CallPushToCalendar(hasDate) ==
    /\ calPc["event"] = "idle"
    /\ eventsPosted < MaxEvents
    /\ isInitialized' = TRUE
    /\ evHasDate' = hasDate
    /\ evSignedIn' = "none"
    /\ evOutcome' = "none"
    /\ calPc' = [calPc EXCEPT !["event"] = "screen.check"]
    /\ UNCHANGED notCal
    /\ UNCHANGED <<accessToken, nativeSignedIn, eventsPosted, sessions>>

\* handlePushToCalendar: isSignedIn() has resolved.  With false the user is
\* asked to connect; with true addTaskToCalendar calls createEventForTask,
\* which awaits isSignedIn() itself when it holds no token.
ScreenChecked ==
    /\ calPc["event"] = "screen.check"
    /\ IF ~nativeSignedIn
       THEN /\ calPc' = [calPc EXCEPT !["event"] = "idle"]
            /\ evOutcome' = "Google Calendar Not Connected"
            /\ UNCHANGED eventsPosted
       ELSE IF accessToken = NoToken
       THEN /\ calPc' = [calPc EXCEPT !["event"] = "create.check"]
            /\ UNCHANGED <<evOutcome, eventsPosted>>
       ELSE /\ calPc' = [calPc EXCEPT !["event"] = AfterSignInTest(accessToken).pc]
            /\ evOutcome' = AfterSignInTest(accessToken).outcome
            /\ eventsPosted' = eventsPosted + AfterSignInTest(accessToken).posted
    /\ UNCHANGED notCal
    /\ UNCHANGED <<isInitialized, accessToken, nativeSignedIn, evHasDate, evSignedIn, sessions>>

\* createEventForTask: its isSignedIn() has resolved.  Signed in, it goes
\* straight to the token test; not signed in, it calls signIn() first.
CreateChecked ==
    /\ calPc["event"] = "create.check"
    /\ evSignedIn' = IF nativeSignedIn THEN "true" ELSE "false"
    /\ IF nativeSignedIn
       THEN /\ calPc' = [calPc EXCEPT !["event"] = AfterSignInTest(accessToken).pc]
            /\ evOutcome' = AfterSignInTest(accessToken).outcome
            /\ eventsPosted' = eventsPosted + AfterSignInTest(accessToken).posted
       ELSE /\ calPc' = [calPc EXCEPT !["event"] = "signIn.check"]
            /\ UNCHANGED <<evOutcome, eventsPosted>>
    /\ UNCHANGED notCal
    /\ UNCHANGED <<isInitialized, accessToken, nativeSignedIn, evHasDate, sessions>>

\* createEventForTask: the event request is answered.
EventPostDone(ok) ==
    /\ calPc["event"] = "create.post"
    /\ calPc' = [calPc EXCEPT !["event"] = "idle"]
    /\ evOutcome' = IF ok THEN "created" ELSE "Failed to add task to calendar"
    /\ UNCHANGED notCal
    /\ UNCHANGED <<isInitialized, accessToken, nativeSignedIn, evHasDate, evSignedIn,
                   eventsPosted, sessions>>

\* The app is started again: a fresh service instance, while GoogleSignin
\* remembers the user.
Restart ==
    /\ \A who \in Callers : calPc[who] = "idle"
    /\ sessions < MaxSessions
    /\ sessions' = sessions + 1
    /\ isInitialized' = FALSE
    /\ accessToken' = NoToken
    /\ UNCHANGED notCal
    /\ UNCHANGED <<nativeSignedIn, calPc, evHasDate, evSignedIn, evOutcome, eventsPosted>>

CalInit ==
    /\ NotCalIdle
    /\ isInitialized = FALSE
    /\ accessToken = NoToken
    /\ nativeSignedIn \in BOOLEAN    \* the user may have signed in in an earlier session
    /\ calPc = [who \in Callers |-> "idle"]
    /\ evHasDate = FALSE
    /\ evSignedIn = "none"
    /\ evOutcome = "none"
    /\ eventsPosted = 0
    /\ sessions = 1

CalNext ==
    \/ CallSignIn
    \/ \E who \in Callers : SignInChecked(who)
    \/ \E who \in Callers, ok \in BOOLEAN : SignInFlowDone(who, ok)
    \/ \E who \in Callers, ok \in BOOLEAN : SignInTokens(who, ok)
    \/ \E who \in Callers : SignInDone(who)
    \/ CallSignOut
    \/ \E ok \in BOOLEAN : SignOutRevoked(ok)
    \/ SignOutNative
    \/ SignOutDone
    \/ \E hasDate \in BOOLEAN : CallPushToCalendar(hasDate)
    \/ ScreenChecked
    \/ CreateChecked
    \/ \E ok \in BOOLEAN : EventPostDone(ok)
    \/ Restart

SpecCal == CalInit /\ [][CalNext]_vars

\* ------------------------------------------- RecordingService and the screens
NoTranscript == ""
Spoken == "I need to file my taxes by Monday."
Edited == "I need to file my taxes by Friday."
Recording(id, text, processed) == [id |-> id, transcript |-> text, processed |-> processed]
NoRecording == Recording(0, NoTranscript, FALSE)

\* addMockRecordings: rec_1 is processed and has a transcript, rec_2 has none.
MockRecordings == <<Recording(1, Spoken, TRUE), Recording(2, NoTranscript, FALSE)>>

\* recordings.find(rec => rec.id === id)
getRecordingById(id) ==
    IF \E i \in 1..Len(recordings) : recordings[i].id = id
    THEN recordings[CHOOSE i \in 1..Len(recordings) : recordings[i].id = id]
    ELSE NoRecording

\* recording.transcript = transcript, on the recording found
WithTranscript(id, text) ==
    [i \in 1..Len(recordings) |->
        IF recordings[i].id = id THEN [recordings[i] EXCEPT !.transcript = text]
        ELSE recordings[i]]

\* recording.processed = true, on the recording found
WithProcessed(id) ==
    [i \in 1..Len(recordings) |->
        IF recordings[i].id = id THEN [recordings[i] EXCEPT !.processed = TRUE]
        ELSE recordings[i]]

\* taskService.getTasksByRecordingId, as the Tasks screen shows it
ShownFor(id, extracted) == IF id \in extracted THEN "tasks" ELSE "empty"

\* TasksScreen.loadTasks up to its first await, for the recording the screen
\* was opened with: an unprocessed recording with a transcript has its
\* transcript processed, any other has its tasks shown as they are.
LoadTasksStart(id) ==
    LET rec == getRecordingById(id) IN
    IF rec # NoRecording /\ rec.transcript # NoTranscript /\ ~rec.processed
    THEN /\ tkPc' = "extracting"
         /\ tkShown' = "loading"
         /\ invokedSincePress' = (invokedSincePress \/ pressed = id)
    ELSE /\ tkPc' = "done"
         /\ tkShown' = IF rec # NoRecording /\ rec.transcript # NoTranscript
                       THEN ShownFor(id, extractedFor) ELSE "empty"
         /\ UNCHANGED invokedSincePress

Settled == recPc = "idle" /\ tsPc = "idle" /\ tkPc \in {"idle", "done"}

\* Home: the record button.
HomeOpenRecording ==
    /\ screen = "Home"
    /\ Len(recordings) < MaxRecordings
    /\ screen' = "Recording"
    /\ UNCHANGED notFlow
    /\ UNCHANGED <<recordings, routeRec, recPc, tsRecording, tsTranscript, tsPc, tkPc,
                   tkShown, extractedFor, pressed, invokedSincePress>>

\* Home: a recording of the list is tapped; the Tasks screen mounts.
HomeOpenTasks(id) ==
    /\ screen = "Home"
    /\ getRecordingById(id) # NoRecording
    /\ screen' = "Tasks"
    /\ routeRec' = id
    /\ LoadTasksStart(id)
    /\ UNCHANGED notFlow
    /\ UNCHANGED <<recordings, recPc, tsRecording, tsTranscript, tsPc, extractedFor, pressed>>

\* Recording: handleDonePress (the screen with the simulated recorder) adds the
\* new recording and awaits the save.
DonePress ==
    /\ screen = "Recording"
    /\ recPc = "idle"
    /\ recordings' = Append(recordings, Recording(Len(recordings) + 1, NoTranscript, FALSE))
    /\ recPc' = "saving"
    /\ UNCHANGED notFlow
    /\ UNCHANGED <<screen, routeRec, tsRecording, tsTranscript, tsPc, tkPc, tkShown,
                   extractedFor, pressed, invokedSincePress>>

\* Recording: the save is over; the Transcript screen mounts for the new
\* recording, which has no transcript, and starts the transcription.
RecordingSaved ==
    /\ recPc = "saving"
    /\ recPc' = "idle"
    /\ screen' = "Transcript"
    /\ routeRec' = Len(recordings)
    /\ tsRecording' = Len(recordings)
    /\ tsTranscript' = getRecordingById(Len(recordings)).transcript
    /\ tsPc' = IF getRecordingById(Len(recordings)).transcript = NoTranscript
               THEN "transcribing" ELSE "idle"
    /\ UNCHANGED notFlow
    /\ UNCHANGED <<recordings, tkPc, tkShown, extractedFor, pressed, invokedSincePress>>

\* Transcript: startTranscription ends, with the text or with an error.
TranscriptionDone(ok) ==
    /\ tsPc = "transcribing"
    /\ tsPc' = "idle"
    /\ tsTranscript' = IF ok THEN Spoken ELSE NoTranscript
    /\ UNCHANGED notFlow
    /\ UNCHANGED <<recordings, screen, routeRec, recPc, tsRecording, tkPc, tkShown,
                   extractedFor, pressed, invokedSincePress>>

\* Transcript: handleTranscriptChange, the user edits the text.
EditTranscript(text) ==
    /\ screen = "Transcript"
    /\ tsPc = "idle"
    /\ tsTranscript' = text
    /\ UNCHANGED notFlow
    /\ UNCHANGED <<recordings, screen, routeRec, recPc, tsRecording, tsPc, tkPc, tkShown,
                   extractedFor, pressed, invokedSincePress>>

\* Transcript: handleEditToggle while editing saves the transcript on screen.
SaveEdit ==
    /\ screen = "Transcript"
    /\ tsPc = "idle"
    /\ tsRecording # 0
    /\ recordings' = WithTranscript(tsRecording, tsTranscript)
    /\ UNCHANGED notFlow
    /\ UNCHANGED <<screen, routeRec, recPc, tsRecording, tsTranscript, tsPc, tkPc, tkShown,
                   extractedFor, pressed, invokedSincePress>>

\* Transcript: 'Process with Janaru' is pressed with a transcript on screen;
\* handleProcessTranscript writes it to the recording and awaits the save.
PressProcess ==
    /\ screen = "Transcript"
    /\ tsPc = "idle"
    /\ tsRecording # 0
    /\ tsTranscript # NoTranscript
    /\ pressed' = IF /\ getRecordingById(tsRecording).transcript # NoTranscript
                     /\ ~getRecordingById(tsRecording).processed
                  THEN tsRecording ELSE 0
    /\ invokedSincePress' = FALSE
    /\ recordings' = WithTranscript(tsRecording, tsTranscript)
    /\ tsPc' = "updating"
    /\ UNCHANGED notFlow
    /\ UNCHANGED <<screen, routeRec, recPc, tsRecording, tsTranscript, tkPc, tkShown,
                   extractedFor>>

\* handleProcessTranscript: the transcript is saved; the recording is marked
\* as processed and that save awaited.
TranscriptSaved ==
    /\ tsPc = "updating"
    /\ recordings' = WithProcessed(tsRecording)
    /\ tsPc' = "marking"
    /\ UNCHANGED notFlow
    /\ UNCHANGED <<screen, routeRec, recPc, tsRecording, tsTranscript, tkPc, tkShown,
                   extractedFor, pressed, invokedSincePress>>

\* handleProcessTranscript: the mark is saved; it navigates to the Tasks
\* screen, which mounts and loads the recording's tasks.
ProcessedSaved ==
    /\ tsPc = "marking"
    /\ tsPc' = "idle"
    /\ screen' = "Tasks"
    /\ routeRec' = tsRecording
    /\ LoadTasksStart(tsRecording)
    /\ UNCHANGED notFlow
    /\ UNCHANGED <<recordings, recPc, tsRecording, tsTranscript, extractedFor, pressed>>

\* Tasks: taskService.processTranscript has ended.  Resolved, the recording is
\* marked as processed; rejected, loadTasks shows its error.
TasksExtractDone(ok) ==
    /\ tkPc = "extracting"
    /\ IF ok
       THEN /\ extractedFor' = extractedFor \cup {routeRec}
            /\ recordings' = WithProcessed(routeRec)
            /\ tkPc' = "marking"
            /\ UNCHANGED tkShown
       ELSE /\ tkPc' = "done"
            /\ tkShown' = "error"
            /\ UNCHANGED <<extractedFor, recordings>>
    /\ UNCHANGED notFlow
    /\ UNCHANGED <<screen, routeRec, recPc, tsRecording, tsTranscript, tsPc, pressed,
                   invokedSincePress>>

\* Tasks: the mark is saved; the recording's tasks are shown.
TasksMarkSaved ==
    /\ tkPc = "marking"
    /\ tkPc' = "done"
    /\ tkShown' = ShownFor(routeRec, extractedFor)
    /\ UNCHANGED notFlow
    /\ UNCHANGED <<recordings, screen, routeRec, recPc, tsRecording, tsTranscript, tsPc,
                   extractedFor, pressed, invokedSincePress>>

\* Back to the Home screen, once nothing is in flight.
GoHome ==
    /\ screen \in {"Recording", "Transcript", "Tasks"}
    /\ Settled
    /\ screen' = "Home"
    /\ routeRec' = 0
    /\ tsRecording' = 0
    /\ tsTranscript' = NoTranscript
    /\ tkPc' = "idle"
    /\ tkShown' = "none"
    /\ pressed' = 0
    /\ invokedSincePress' = FALSE
    /\ UNCHANGED notFlow
    /\ UNCHANGED <<recordings, recPc, tsPc, extractedFor>>

\* The Home screen after addMockRecordings.
FlowInit ==
    /\ NotFlowIdle
    /\ recordings = MockRecordings
    /\ screen = "Home"
    /\ routeRec = 0
    /\ recPc = "idle"
    /\ tsRecording = 0
    /\ tsTranscript = NoTranscript
    /\ tsPc = "idle"
    /\ tkPc = "idle"
    /\ tkShown = "none"
    /\ extractedFor = {}
    /\ pressed = 0
    /\ invokedSincePress = FALSE

FlowNext ==
    \/ HomeOpenRecording
    \/ \E id \in 1..MaxRecordings : HomeOpenTasks(id)
    \/ DonePress
    \/ RecordingSaved
    \/ \E ok \in BOOLEAN : TranscriptionDone(ok)
    \/ \E text \in {NoTranscript, Spoken, Edited} : EditTranscript(text)
    \/ SaveEdit
    \/ PressProcess
    \/ TranscriptSaved
    \/ ProcessedSaved
    \/ \E ok \in BOOLEAN : TasksExtractDone(ok)
    \/ TasksMarkSaved
    \/ GoHome

SpecFlow == FlowInit /\ [][FlowNext]_vars

\* ========================================================= RecordingService
\* A Recording: its id, its date as a time stamp (new Date(date).getTime()),
\* its transcript and its processed flag.
Rec(id, date, text, processed) ==
    [id |-> id, date |-> date, transcript |-> text, processed |-> processed]

\* The dates of the two mock recordings, as minutes of 2025-03-21.
MockDate1 == 630
MockDate2 == 945

\* addMockRecordings' list.
mockRecordings == <<Rec(1, MockDate1, Spoken, TRUE), Rec(2, MockDate2, NoTranscript, FALSE)>>

\* The dates recordings are added with.
RecDates == {600, 945, 1200}

\* The lists a previous session may have left under '@janaru_recordings'.
RecStores ==
    { Absent,
      Stored(<<Rec(7, 600, Spoken, FALSE)>>),
      Stored(<<Rec(7, 600, Spoken, FALSE), Rec(8, 1200, NoTranscript, FALSE)>>) }

\* The ids operations are called with: the ids in memory and one no recording has.
UnknownRecording == 0
RecIdArgs == {rsRecordings[i].id : i \in 1..Len(rsRecordings)} \cup {UnknownRecording}

RecordingNotFound == "Recording not found"

\* rsHistory.invoked: the number of operations invoked so far.
\* rsHistory.persisted: the list storage held when the app started.
\* rsHistory.resolved: the ids of the recordings whose addRecording has resolved.
\* rsHistory.added: the number of recordings addRecording was called with.
NoRsHistory == [invoked |-> 0, persisted |-> <<>>, resolved |-> {}, added |-> 0]

RsInvoked(h) == [h EXCEPT !.invoked = h.invoked + 1]
RsCall(kind, arg, message) == [kind |-> kind, arg |-> arg, thrown |-> message]
RsFree == rsHistory.invoked < MaxRecCalls

\* A storage request: who is the id of the recording whose addRecording awaits
\* it, 0 for any other requester.
RsGet == [type |-> "get", value |-> <<>>, who |-> 0]
RsSet(list, who) == [type |-> "set", value |-> list, who |-> who]

\* this.recordings = list; saveRecordings up to its await of setItem.
RsMutateAndSave(list, who) ==
    /\ rsRecordings' = list
    /\ rsQ' = Append(rsQ, RsSet(list, who))

\* recordings.find(rec => rec.id === id): the index of the first match, 0 if none.
RsFind(id) ==
    IF \E i \in 1..Len(rsRecordings) : rsRecordings[i].id = id
    THEN CHOOSE i \in 1..Len(rsRecordings) :
             rsRecordings[i].id = id /\ \A j \in 1..(i - 1) : rsRecordings[j].id # id
    ELSE 0

\* loadRecordings resumes with getItem's answer; null (or '') leaves the list.
RsLoadDone ==
    /\ rsLoadPc = "get"
    /\ rsQ # <<>> /\ Head(rsQ).type = "get"
    /\ rsRecordings' = IF rsStorage.present THEN rsStorage.list ELSE rsRecordings
    /\ rsQ' = Tail(rsQ)
    /\ rsLoadPc' = "done"
    /\ UNCHANGED notRec /\ UNCHANGED <<rsStorage, rsLast, rsResult, rsHistory>>

\* setItem is served; saveRecordings returns and with it the operation.
RsSaveDone ==
    /\ rsQ # <<>> /\ Head(rsQ).type = "set"
    /\ rsStorage' = Stored(Head(rsQ).value)
    /\ rsQ' = Tail(rsQ)
    /\ rsHistory' = [rsHistory EXCEPT
                         !.resolved = IF Head(rsQ).who = 0 THEN @ ELSE @ \cup {Head(rsQ).who}]
    /\ UNCHANGED notRec /\ UNCHANGED <<rsRecordings, rsLoadPc, rsLast, rsResult>>

\* The id of the next recording a screen adds.
NewRecordingId == 11 + rsHistory.added

CallAddRecording(date) ==
    /\ RsFree
    /\ Len(rsRecordings) < MaxRecordings
    /\ RsMutateAndSave(Append(rsRecordings, Rec(NewRecordingId, date, NoTranscript, FALSE)),
                       NewRecordingId)
    /\ rsLast' = RsCall("addRecording", NewRecordingId, "")
    /\ rsHistory' = [RsInvoked(rsHistory) EXCEPT !.added = @ + 1]
    /\ UNCHANGED notRec /\ UNCHANGED <<rsStorage, rsLoadPc, rsResult>>

\* A comparator that puts the oldest first.
OlderFirst(a, b) == a.date <= b.date

\* The comparator's order: a does not come after b.
NewerFirst(a, b) == a.date >= b.date

\* Array.prototype.sort with the comparator: stable, each element is put behind
\* the elements that do not come after it.
RECURSIVE InsertSorted(_, _)
InsertSorted(sorted, r) ==
    IF sorted = <<>> THEN <<r>>
    ELSE IF NewerFirst(Head(sorted), r) THEN <<Head(sorted)>> \o InsertSorted(Tail(sorted), r)
    ELSE <<r>> \o sorted

RECURSIVE SortRecordings(_, _)
SortRecordings(list, sorted) ==
    IF list = <<>> THEN sorted
    ELSE SortRecordings(Tail(list), InsertSorted(sorted, Head(list)))

\* getRecordings: a sorted copy.
CallGetRecordings ==
    /\ RsFree
    /\ rsResult' = SortRecordings(rsRecordings, <<>>)
    /\ rsLast' = RsCall("getRecordings", 0, "")
    /\ rsHistory' = RsInvoked(rsHistory)
    /\ UNCHANGED notRec /\ UNCHANGED <<rsRecordings, rsStorage, rsQ, rsLoadPc>>

\* recording.transcript = transcript, on the recording found.
SetTranscript(list, i, text) == [list EXCEPT ![i].transcript = text]

\* A write that reaches every recording.
SetProcessedAll(list, i) == [k \in 1..Len(list) |-> [list[k] EXCEPT !.processed = TRUE]]

\* recording.processed = true, on the recording found.
SetProcessed(list, i) == [list EXCEPT ![i].processed = TRUE]

CallUpdateRecordingTranscriptNotFound(id, text) ==
    /\ RsFree
    /\ RsFind(id) = 0
    /\ rsLast' = RsCall("updateRecordingTranscript", id, RecordingNotFound)
    /\ rsHistory' = RsInvoked(rsHistory)
    /\ UNCHANGED notRec /\ UNCHANGED <<rsRecordings, rsStorage, rsQ, rsLoadPc, rsResult>>

CallUpdateRecordingTranscript(id, text) ==
    /\ RsFree
    /\ RsFind(id) # 0
    /\ RsMutateAndSave(SetTranscript(rsRecordings, RsFind(id), text), 0)
    /\ rsLast' = RsCall("updateRecordingTranscript", id, "")
    /\ rsHistory' = RsInvoked(rsHistory)
    /\ UNCHANGED notRec /\ UNCHANGED <<rsStorage, rsLoadPc, rsResult>>

CallMarkRecordingAsProcessedNotFound(id) ==
    /\ RsFree
    /\ RsFind(id) = 0
    /\ rsLast' = RsCall("markRecordingAsProcessed", id, RecordingNotFound)
    /\ rsHistory' = RsInvoked(rsHistory)
    /\ UNCHANGED notRec /\ UNCHANGED <<rsRecordings, rsStorage, rsQ, rsLoadPc, rsResult>>

CallMarkRecordingAsProcessed(id) ==
    /\ RsFree
    /\ RsFind(id) # 0
    /\ RsMutateAndSave(SetProcessed(rsRecordings, RsFind(id)), 0)
    /\ rsLast' = RsCall("markRecordingAsProcessed", id, "")
    /\ rsHistory' = RsInvoked(rsHistory)
    /\ UNCHANGED notRec /\ UNCHANGED <<rsStorage, rsLoadPc, rsResult>>

\* addMockRecordings when the list is not empty: it returns at once.
CallAddMockRecordingsSkipped ==
    /\ RsFree
    /\ Len(rsRecordings) > 0
    /\ rsLast' = RsCall("addMockRecordings", 0, "")
    /\ rsHistory' = RsInvoked(rsHistory)
    /\ UNCHANGED notRec /\ UNCHANGED <<rsRecordings, rsStorage, rsQ, rsLoadPc, rsResult>>

\* addMockRecordings on an empty list: the two mock recordings are added and saved.
CallAddMockRecordings ==
    /\ RsFree
    /\ Len(rsRecordings) = 0
    /\ RsMutateAndSave(rsRecordings \o mockRecordings, 0)
    /\ rsLast' = RsCall("addMockRecordings", 0, "")
    /\ rsHistory' = RsInvoked(rsHistory)
    /\ UNCHANGED notRec /\ UNCHANGED <<rsStorage, rsLoadPc, rsResult>>

\* The service as the module constructs it: the list is empty and the
\* constructor's loadRecordings awaits getItem.
RecInit ==
    /\ NotRecIdle
    /\ rsRecordings = <<>>
    /\ rsStorage \in RecStores
    /\ rsQ = <<RsGet>>
    /\ rsLoadPc = "get"
    /\ rsLast = RsCall("none", 0, "")
    /\ rsResult = <<>>
    /\ rsHistory = [NoRsHistory EXCEPT !.persisted = rsStorage.list]

RecNext ==
    \/ RsLoadDone
    \/ RsSaveDone
    \/ \E d \in RecDates : CallAddRecording(d)
    \/ CallGetRecordings
    \/ \E id \in RecIdArgs, text \in {Spoken, Edited} :
           CallUpdateRecordingTranscriptNotFound(id, text)
    \/ \E id \in RecIdArgs, text \in {Spoken, Edited} : CallUpdateRecordingTranscript(id, text)
    \/ \E id \in RecIdArgs : CallMarkRecordingAsProcessedNotFound(id)
    \/ \E id \in RecIdArgs : CallMarkRecordingAsProcessed(id)
    \/ CallAddMockRecordingsSkipped
    \/ CallAddMockRecordings

SpecRec == RecInit /\ [][RecNext]_vars

\* ================================================ RecordingScreen, recorder
\* A component function closes over the hook state of the render that created
\* it: a handler reads the values of the last render before the press, and a
\* setState call shows in the handlers only after the next render.
NoAudio == "null"
RecorderUri == "file:///recording.m4a"
Prepared == "Audio.Recording"

HookState(recording, recordingNow, uri) ==
    [recording |-> recording, isRecording |-> recordingNow, audioUri |-> uri]

\* The hook state now.
Current == HookState(recorder, isRecording, recordedUri)

OnScreen(name, id) == [screen |-> name, recordingId |-> id]

\* startRecording, called by the mount effect, has prepared and started the
\* recording: setRecording, setIsRecording(true), setDuration(0).
StartRecordingDone ==
    /\ startPc = "starting"
    /\ recorder' = Prepared
    /\ isRecording' = TRUE
    /\ elapsed' = 0
    /\ startPc' = "done"
    /\ UNCHANGED notHook
    /\ UNCHANGED <<recordedUri, rendered, stopPc, closure, produced, added, route, mounts>>

\* startRecording fails (no permission, no microphone): the catch block logs.
StartRecordingFailed ==
    /\ startPc = "starting"
    /\ startPc' = "failed"
    /\ UNCHANGED notHook
    /\ UNCHANGED <<recorder, isRecording, elapsed, recordedUri, rendered, stopPc, closure,
                   produced, added, route, mounts>>

\* The duration timer.
Tick ==
    /\ startPc \in {"done", "simulating"}
    /\ isRecording
    /\ elapsed < MaxDuration
    /\ elapsed' = elapsed + 1
    /\ UNCHANGED notHook
    /\ UNCHANGED <<recorder, isRecording, recordedUri, rendered, startPc, stopPc, closure,
                   produced, added, route, mounts>>

\* React renders the screen again after a state change.
Render ==
    /\ route.screen = "Recording"
    /\ startPc \notin {"simulating", "complete"}
    /\ rendered # Current
    /\ rendered' = Current
    /\ UNCHANGED notHook
    /\ UNCHANGED <<recorder, isRecording, elapsed, recordedUri, startPc, stopPc, closure,
                   produced, added, route, mounts>>

\* The stop button, shown while the render's isRecording is true, is pressed:
\* handleStopRecording of that render runs up to stopRecording's await of
\* recording.stopAndUnloadAsync.
PressStop ==
    /\ route.screen = "Recording"
    /\ startPc \notin {"simulating", "complete"}
    /\ rendered.isRecording
    /\ rendered.recording # "null"
    /\ stopPc = "idle"
    /\ closure' = rendered
    /\ produced' = NoAudio
    /\ stopPc' = "stopping"
    /\ UNCHANGED notHook
    /\ UNCHANGED <<recorder, isRecording, elapsed, recordedUri, rendered, startPc, added,
                   route, mounts>>

\* handleStopRecording after `await stopRecording()`: it tests the audioUri of
\* its render, builds the new recording with it and awaits addRecording.
AfterStop ==
    IF closure.audioUri # NoAudio
    THEN /\ added' = Append(added, [id |-> Len(added) + 1, audioUri |-> closure.audioUri,
                                    transcript |-> "null", processed |-> FALSE])
         /\ stopPc' = "adding"
    ELSE /\ added' = added
         /\ stopPc' = "idle"

\* stopAndUnloadAsync resolves; getURI answers uri; setAudioUri (if uri),
\* setIsRecording(false), setRecording(null); the handler goes on.
StopRecordingDone(uri) ==
    /\ stopPc = "stopping"
    /\ recorder = Prepared
    /\ recordedUri' = IF uri # NoAudio THEN uri ELSE recordedUri
    /\ isRecording' = FALSE
    /\ recorder' = "null"
    /\ produced' = uri
    /\ AfterStop
    /\ UNCHANGED notHook
    /\ UNCHANGED <<elapsed, rendered, startPc, closure, route, mounts>>

\* stopAndUnloadAsync rejects (the recording of the handler's render was
\* unloaded already, or the recorder fails): the catch block logs, the state
\* stays, the handler goes on.
StopRecordingFailed ==
    /\ stopPc = "stopping"
    /\ AfterStop
    /\ UNCHANGED notHook
    /\ UNCHANGED <<recorder, isRecording, elapsed, recordedUri, rendered, startPc, closure,
                   produced, route, mounts>>

\* addRecording resolves: navigation.navigate('Transcript', {recordingId}).
AddRecordingDone ==
    /\ stopPc = "adding"
    /\ stopPc' = "idle"
    /\ route' = OnScreen("Transcript", added[Len(added)].id)
    /\ UNCHANGED notHook
    /\ UNCHANGED <<recorder, isRecording, elapsed, recordedUri, rendered, startPc, closure,
                   produced, added, mounts>>

\* Back: the Recording or Transcript screen is left.
GoBack ==
    /\ route.screen \in {"Recording", "Transcript"}
    /\ stopPc = "idle"
    /\ startPc # "starting"
    /\ route' = OnScreen("Home", 0)
    /\ UNCHANGED notHook
    /\ UNCHANGED <<recorder, isRecording, elapsed, recordedUri, rendered, startPc, stopPc,
                   closure, produced, added, mounts>>

\* Home's record button: the Recording screen mounts with new hook state and
\* its effect calls startRecording.
OpenRecording ==
    /\ route.screen = "Home"
    /\ mounts < MaxMounts
    /\ route' = OnScreen("Recording", 0)
    /\ recorder' = "null"
    /\ isRecording' = FALSE
    /\ elapsed' = 0
    /\ recordedUri' = NoAudio
    /\ rendered' = HookState("null", FALSE, NoAudio)
    /\ closure' = HookState("null", FALSE, NoAudio)
    /\ produced' = NoAudio
    /\ startPc' = "starting"
    /\ stopPc' = "idle"
    /\ mounts' = mounts + 1
    /\ UNCHANGED notHook
    /\ UNCHANGED added

\* The screen's other version simulates the recorder.  Its mount effect calls
\* startRecordingSimulation: setRecording(true), setComplete(false).
OpenSimulatedRecording ==
    /\ route.screen = "Home"
    /\ mounts < MaxMounts
    /\ route' = OnScreen("Recording", 0)
    /\ recorder' = "null"
    /\ isRecording' = TRUE
    /\ elapsed' = 0
    /\ recordedUri' = NoAudio
    /\ rendered' = HookState("null", TRUE, NoAudio)
    /\ closure' = HookState("null", FALSE, NoAudio)
    /\ produced' = NoAudio
    /\ startPc' = "simulating"
    /\ stopPc' = "idle"
    /\ mounts' = mounts + 1
    /\ UNCHANGED notHook
    /\ UNCHANGED added

\* handleRecordPress: it stops the simulation (setComplete(true)) or starts it.
SimulatedRecordPress ==
    /\ route.screen = "Recording"
    /\ startPc \in {"simulating", "complete"}
    /\ stopPc = "idle"
    /\ startPc' = IF startPc = "simulating" THEN "complete" ELSE "simulating"
    /\ isRecording' = (startPc = "complete")
    /\ elapsed' = IF startPc = "complete" THEN 0 ELSE elapsed
    /\ rendered' = [rendered EXCEPT !.isRecording = (startPc = "complete")]
    /\ UNCHANGED notHook
    /\ UNCHANGED <<recorder, recordedUri, stopPc, closure, produced, added, route, mounts>>

MockRecordingUri == "file:///mock/recording.m4a"

\* handleDonePress, behind the Done button that `complete` shows: a recording
\* with the mock URI is passed to addRecording.
SimulatedDonePress ==
    /\ route.screen = "Recording"
    /\ startPc = "complete"
    /\ stopPc = "idle"
    /\ added' = Append(added, [id |-> Len(added) + 1, audioUri |-> MockRecordingUri,
                               transcript |-> "null", processed |-> FALSE])
    /\ stopPc' = "adding"
    /\ UNCHANGED notHook
    /\ UNCHANGED <<recorder, isRecording, elapsed, recordedUri, rendered, startPc, closure,
                   produced, route, mounts>>

RecorderInit ==
    /\ NotHookIdle
    /\ recorder = "null"
    /\ isRecording = FALSE
    /\ elapsed = 0
    /\ recordedUri = NoAudio
    /\ rendered = HookState("null", FALSE, NoAudio)
    /\ startPc = "off"
    /\ stopPc = "idle"
    /\ closure = HookState("null", FALSE, NoAudio)
    /\ produced = NoAudio
    /\ added = <<>>
    /\ route = OnScreen("Home", 0)
    /\ mounts = 0

RecorderNext ==
    \/ OpenRecording
    \/ StartRecordingDone
    \/ StartRecordingFailed
    \/ Tick
    \/ Render
    \/ PressStop
    \/ \E uri \in {NoAudio, RecorderUri} : StopRecordingDone(uri)
    \/ StopRecordingFailed
    \/ AddRecordingDone
    \/ GoBack
    \/ OpenSimulatedRecording
    \/ SimulatedRecordPress
    \/ SimulatedDonePress

SpecRecorder == RecorderInit /\ [][RecorderNext]_vars

\* ------------------------------------------------------------------ claims
Ids(list) == {list[i].id : i \in 1..Len(list)}

\* No operation is in flight, loadTasks has finished, storage is idle.
Quiescent ==
    /\ loadPc = "done"
    /\ storageQ = <<>>
    /\ \A c \in CallIds : calls[c].kind = "none"

\* Call c returns in this step.
Resolves(c, kind) ==
    /\ calls[c].kind = kind
    /\ calls[c].pc = "saveCompleted"
    /\ calls'[c].kind = "none"

\* Call c is invoked in this step.
Invokes(c, kind) ==
    /\ calls[c].kind = "none"
    /\ calls'[c].kind = kind

\* C2 (as claimed): when processTranscript for recording r resolves, no task
\* that an earlier extraction of r returned is left in any of the three lists.
C2_NoTaskOfEarlierExtraction ==
    [][\A c \in CallIds :
          Resolves(c, "processTranscript") =>
              \A t \in AllTasks' :
                  t.recordingId = calls[c].arg => t.id \notin history'.superseded]_vars

\* C3 (as claimed): loadTasks does not change the outcome of an operation.
\* When addTask, the only operation invoked so far, resolves, the task it added
\* is in the in-memory lists, as it is when the load and addTask run one after
\* the other in either order.
C3_AddTaskOutcomeAsIfSerial ==
    [][\A c \in CallIds :
          (Resolves(c, "addTask") /\ history.invoked = 1) =>
              \E t \in AllTasks' : t.id \in calls[c].resp]_vars

\* C4: with every operation invoked after loadTasks has finished, once no
\* operation is pending and something was saved, each key holds the
\* serialisation of its in-memory list.
C4_StorageMatchesMemory ==
    (Quiescent /\ \E k \in StorageKeys : storage[k].present) =>
        /\ storage[HighKey] = Stored(Serialise(highPriorityTasks))
        /\ storage[MediumKey] = Stored(Serialise(mediumPriorityTasks))
        /\ storage[CompletedKey] = Stored(Serialise(completedTasks))

\* C4 witness: two or more operations have run, one of them moved a task to
\* completedTasks, and all is saved.
C4_Witness ==
    /\ Quiescent
    /\ history.invoked >= 2
    /\ completedTasks # <<>>
    /\ highPriorityTasks # <<>>
    /\ storage[CompletedKey] = Stored(Serialise(completedTasks))

\* C10 (as claimed): markTaskAsCompleted on an id found in an active list
\* leaves the task in completedTasks, completed, and in neither active list.
C10_MarkMovesTask ==
    [][\A c \in CallIds :
          (/\ Invokes(c, "markTaskAsCompleted")
           /\ calls'[c].arg \in Ids(highPriorityTasks) \cup Ids(mediumPriorityTasks)) =>
              (/\ calls'[c].arg \notin Ids(highPriorityTasks')
               /\ calls'[c].arg \notin Ids(mediumPriorityTasks')
               /\ \E i \in 1..Len(completedTasks') :
                     /\ completedTasks'[i].id = calls'[c].arg
                     /\ completedTasks'[i].completed)]_vars

\* Two characters are the same letter, whatever their case.
CasePairs ==
    {<<Uppers[k], Lowers[k]>> : k \in 1..26} \cup {<<Lowers[k], Uppers[k]>> : k \in 1..26}
SameLetter(a, b) == a = b \/ <<a, b>> \in CasePairs

\* sub occurs in str, case aside.
ContainsNoCase(str, sub) ==
    \E i \in 0..(Len(str) - Len(sub)) :
        \A j \in 1..Len(sub) : SameLetter(str[i + j], sub[j])

\* The result holds a task of this title in this list.
Returned(list, title, priority) ==
    \E i \in 1..Len(list) : list[i].title = title /\ list[i].priority = priority

MockDone == apiPc = "done" /\ apiCause = "none" /\ responseText = <<>>

\* C5 as stated: the substring 'vet' alone yields 'Take your dog to the vet'.
C5_VetAloneYieldsVetTask ==
    (MockDone /\ ContainsNoCase(apiTranscript, KwVet))
        => Returned(apiResult.highPriorityTasks, "Take your dog to the vet", "high")

\* C5, amended: mockProcessTranscript matches substrings case-insensitively:
\* 'tax' yields 'File your taxes' (high); 'dog' together with 'vet' or 'doctor'
\* yields 'Take your dog to the vet' (high); 'vacation' yields 'Plan vacation
\* for burnout recovery' (medium); and the task of a topic is not returned
\* when none of the topic's substrings occurs.
C5_MockMatchesSubstrings ==
    MockDone =>
        LET Has(sub) == ContainsNoCase(apiTranscript, sub)
            high == apiResult.highPriorityTasks
            medium == apiResult.mediumPriorityTasks
            Titled(title) == \E t \in Range(high) \cup Range(medium) : t.title = title
        IN  /\ Has(KwTax) <=> Returned(high, "File your taxes", "high")
            /\ (Has(KwDog) /\ (Has(KwVet) \/ Has(KwDoctor)))
                   <=> Returned(high, "Take your dog to the vet", "high")
            /\ Has(KwVacation) => Returned(medium, "Plan vacation for burnout recovery", "medium")
            /\ ~Has(KwTax) => ~Titled("File your taxes")
            /\ ~(Has(KwVet) \/ Has(KwDoctor) \/ Has(KwDog)) => ~Titled("Take your dog to the vet")
            /\ ~(Has(KwDriver) \/ Has(KwLicense)) => ~Titled("Help with driver's license")
            /\ ~(Has(KwYard) \/ Has(KwWaste) \/ Has(KwDispose)) => ~Titled("Dispose of yard waste")
            /\ ~(Has(KwVacation) \/ Has(KwBurntOut) \/ Has(KwBurnout))
                   => ~Titled("Plan vacation for burnout recovery")

\* A transcript with capitals that names a dog, a vet and taxes has been
\* turned into the tax and the vet task.
C5_Witness ==
    /\ MockDone
    /\ apiTranscript # toLowerCase(apiTranscript)
    /\ ContainsNoCase(apiTranscript, KwTax)
    /\ ContainsNoCase(apiTranscript, KwDog) /\ ContainsNoCase(apiTranscript, KwVet)
    /\ Returned(apiResult.highPriorityTasks, "File your taxes", "high")
    /\ Returned(apiResult.highPriorityTasks, "Take your dog to the vet", "high")

\* The pieces of the text that are JSON objects.
JsonObjectsIn(text) == {i \in 1..Len(text) : text[i].kind = "json"}

\* C6: in production with an API key, a response whose text contains a JSON
\* object with both arrays makes processTranscript return exactly the tasks of
\* that object, in order, each with recordingId set and completed false, and
\* no task of the heuristic.
C6_ReturnsTheParsedTasks ==
    (/\ apiPc = "done"
     /\ env = "production"
     /\ apiKey # NoKey
     /\ JsonObjectsIn(responseText) # {}
     /\ \A i \in JsonObjectsIn(responseText) : responseText[i] = JsonBoth)
        => /\ apiResult.highPriorityTasks =
                  <<[title |-> "Call the bank", priority |-> "high",
                     completed |-> FALSE, recordingId |-> apiRecordingId],
                    [title |-> "Renew passport", priority |-> "high",
                     completed |-> FALSE, recordingId |-> apiRecordingId]>>
           /\ apiResult.mediumPriorityTasks =
                  <<[title |-> "Buy paint", priority |-> "medium",
                     completed |-> FALSE, recordingId |-> apiRecordingId]>>

\* No piece of the text is a JSON object with both arrays.
NoUsableJson(text) == \A i \in 1..Len(text) : ~(text[i].hasHigh /\ text[i].hasMedium)

\* C7: processTranscript never rejects: when the key is missing, the request
\* fails, the response holds no JSON object, the JSON does not parse or the
\* arrays are absent, it resolves with what mockProcessTranscript returns for
\* the same transcript and recordingId.
C7_FailuresFallBackToMock ==
    /\ apiPc \in {"off", "idle", "getApiKey", "post", "mockDelay", "done"}
    /\ (/\ env = "production"
        /\ \/ apiKey = NoKey /\ apiPc \notin {"idle", "getApiKey"}
           \/ apiCause # "none"
           \/ responseText # <<>> /\ NoUsableJson(responseText))
           => /\ apiPc \in {"mockDelay", "done"}
              /\ apiPc = "done" =>
                     apiResult = mockProcessTranscript(apiTranscript, apiRecordingId, today)

\* A response whose JSON object lacks mediumPriorityTasks has been answered
\* with the heuristic's tasks.
C7_Witness ==
    /\ apiPc = "done"
    /\ responseText = <<JsonNoMedium>>
    /\ apiCause = "noArrays"
    /\ apiResult = mockProcessTranscript(apiTranscript, apiRecordingId, today)

\* The uri begins with file:///mock/
HasMockPrefix(uri) ==
    /\ Len(uri) >= 13
    /\ \A i \in 1..13 : uri[i] = MockPrefix[i]

C9_SignedInNeverRefused ==
    evSignedIn = "true" => evOutcome # NotSignedInError

\* C1: for a recording with a non-empty transcript and processed = false,
\* pressing 'Process with Janaru' leads, the recording-service calls
\* succeeding, to taskService.processTranscript being invoked for the
\* recording, so that the Tasks screen shows the extracted tasks: once the
\* Tasks screen has loaded after the press, the extraction has been invoked
\* and the tasks are shown.
C1_PressLeadsToExtraction ==
    (/\ pressed # 0
     /\ screen = "Tasks"
     /\ routeRec = pressed
     /\ tkPc = "done")
        => invokedSincePress /\ tkShown = "tasks"

\* ---------------------------------------------------------------------------
\* C11: however calls of addTaskToCalendar for one task id interleave, a task
\* that has a calendarEventId has had at most one calendar event created for it.
C11_OneEventPerTask ==
    \A t \in AllTasks :
        t.calendarEventId # 0 => Times(history.created, t.id) <= 1

\* ---------------------------------------------------------------------------
\* The tasks of a list that belong to another recording than recordingId, in
\* the list's order.
Others(list, recordingId) == SelectSeq(list, LAMBDA t : t.recordingId # recordingId)

ByIdKinds == {"updateTask", "markTaskAsCompleted", "addTaskToCalendar",
              "updateTaskWithCalendarEvent"}

\* C13: markTaskAsCompleted, addTaskToCalendar and updateTaskWithCalendarEvent
\* called with an id no list holds reject with 'Task not found', updateTask
\* resolves with null; the call changes no list, issues no save, leaves the
\* stored values as they are and requests no calendar event.
C13_UnknownIdChangesNothing ==
    [][history'.invoked = history.invoked + 1 =>
          /\ \A c \in CallIds :
                (calls'[c] # calls[c] /\ calls'[c].kind \in ByIdKinds)
                    => \E t \in AllTasks : t.id = calls'[c].arg
          /\ (/\ calls' = calls
              /\ history'.ended.kind \in ByIdKinds
              /\ \A t \in AllTasks : t.id # history'.ended.arg) =>
                  /\ history'.ended.thrown =
                        (IF history'.ended.kind = "updateTask" THEN "" ELSE TaskNotFound)
                  /\ highPriorityTasks' = highPriorityTasks
                  /\ mediumPriorityTasks' = mediumPriorityTasks
                  /\ completedTasks' = completedTasks
                  /\ storage' = storage
                  /\ storageQ' = storageQ
                  /\ history'.requested = history.requested]_vars

\* addTaskToCalendar was called with an unknown id while the lists hold a task.
C13_Witness ==
    /\ history.ended = Ended("addTaskToCalendar", UnknownId, TaskNotFound)
    /\ AllTasks # {}

\* ---------------------------------------------------------------------------
\* An operation of the kinds is invoked in this step.
RsInvokes(kinds) ==
    rsHistory'.invoked = rsHistory.invoked + 1 /\ rsLast'.kind \in kinds

\* C14: updateRecordingTranscript and markRecordingAsProcessed called with an id
\* no recording has reject with 'Recording not found' and change neither the
\* list nor the stored value; called with a known id they change only the
\* transcript, or only the processed flag, of that one recording.
C14_OnlyTheNamedRecordingChanges ==
    [][RsInvokes({"updateRecordingTranscript", "markRecordingAsProcessed"}) =>
          IF \A i \in 1..Len(rsRecordings) : rsRecordings[i].id # rsLast'.arg
          THEN /\ rsLast'.thrown = RecordingNotFound
               /\ rsRecordings' = rsRecordings
               /\ rsStorage' = rsStorage
               /\ rsQ' = rsQ
          ELSE /\ rsLast'.thrown = ""
               /\ Len(rsRecordings') = Len(rsRecordings)
               /\ \E i \in 1..Len(rsRecordings) :
                      /\ rsRecordings[i].id = rsLast'.arg
                      /\ \A k \in 1..Len(rsRecordings) :
                             k # i => rsRecordings'[k] = rsRecordings[k]
                      /\ rsRecordings'[i] =
                            (IF rsLast'.kind = "markRecordingAsProcessed"
                             THEN [rsRecordings[i] EXCEPT !.processed = TRUE]
                             ELSE [rsRecordings[i] EXCEPT
                                       !.transcript = rsRecordings'[i].transcript])]_vars

\* markRecordingAsProcessed has marked one of several recordings, another one
\* is not processed.
C14_Witness ==
    /\ rsLast.kind = "markRecordingAsProcessed"
    /\ rsLast.thrown = ""
    /\ \E i, k \in 1..Len(rsRecordings) :
           /\ rsRecordings[i].id = rsLast.arg
           /\ rsRecordings[i].processed
           /\ ~rsRecordings[k].processed

\* How often r occurs in a list.
Occurrences(list, r) == Cardinality({i \in 1..Len(list) : list[i] = r})

\* C15: getRecordings returns a new array that holds the recordings of the
\* list, each as often as the list does, with dates that never increase from
\* one element to the next; the list itself keeps its order.
C15_SortedCopyNewestFirst ==
    [][RsInvokes({"getRecordings"}) =>
          /\ rsRecordings' = rsRecordings
          /\ Len(rsResult') = Len(rsRecordings)
          /\ \A i \in 1..Len(rsRecordings) :
                 Occurrences(rsResult', rsRecordings[i])
                     = Occurrences(rsRecordings, rsRecordings[i])
          /\ \A i \in 1..(Len(rsResult') - 1) :
                 rsResult'[i].date >= rsResult'[i + 1].date]_vars

\* getRecordings has returned three or more recordings in another order than
\* the list's.
C15_Witness ==
    /\ rsLast.kind = "getRecordings"
    /\ Len(rsResult) >= 3
    /\ Len(rsResult) = Len(rsRecordings)
    /\ rsResult # rsRecordings
    /\ \A i \in 1..Len(rsRecordings) : Occurrences(rsResult, rsRecordings[i]) = 1

\* C16: when storage held recordings at start-up, then once the load and every
\* save have finished, no mock recording was added, and memory and storage both
\* hold every recording that was persisted and every recording whose
\* addRecording has resolved.
C16_NothingPersistedIsLost ==
    (Len(rsHistory.persisted) > 0 /\ rsLoadPc = "done" /\ rsQ = <<>>) =>
        /\ \A m \in Ids(mockRecordings) :
               m \notin Ids(rsRecordings) /\ m \notin Ids(rsStorage.list)
        /\ Ids(rsHistory.persisted) \subseteq Ids(rsRecordings)
        /\ Ids(rsHistory.persisted) \subseteq Ids(rsStorage.list)
        /\ rsHistory.resolved \subseteq Ids(rsRecordings)
        /\ rsHistory.resolved \subseteq Ids(rsStorage.list)

\* ---------------------------------------------------------------------------
\* One of the five keyword rules matches the transcript, whatever its case.
AnyRuleMatches(str) ==
    LET Has(sub) == ContainsNoCase(str, sub)
    IN  \/ Has(KwTax)
        \/ Has(KwDog) /\ (Has(KwVet) \/ Has(KwDoctor))
        \/ Has(KwDriver) /\ Has(KwLicense)
        \/ Has(KwYard) \/ Has(KwWaste) \/ Has(KwDispose)
        \/ Has(KwVacation) \/ Has(KwBurntOut) \/ Has(KwBurnout)

\* C17: mockProcessTranscript returns at least one task; 'Review your
\* priorities' (high, 30 minutes) is returned exactly when no keyword rule
\* matched and is then the only task; every task carries the call's recordingId
\* and completed = false; the tasks of highPriorityTasks have priority 'high',
\* those of mediumPriorityTasks priority 'medium'.
C17_DefaultTaskIffNoRuleMatched ==
    MockDone =>
        LET high == apiResult.highPriorityTasks
            medium == apiResult.mediumPriorityTasks
            all == Range(high) \cup Range(medium)
            IsDefault(t) == t.title = "Review your priorities"
        IN  /\ Len(high) + Len(medium) >= 1
            /\ (\E t \in all : IsDefault(t)) <=> ~AnyRuleMatches(apiTranscript)
            /\ \A t \in all : IsDefault(t) => t.priority = "high" /\ t.duration = 30
            /\ (\E t \in all : IsDefault(t)) => Len(high) = 1 /\ Len(medium) = 0
            /\ \A t \in all : t.recordingId = apiRecordingId /\ t.completed = FALSE
            /\ \A t \in Range(high) : t.priority = "high"
            /\ \A t \in Range(medium) : t.priority = "medium"

\* A transcript that says 'dog' and matches no rule got the default task.
C17_Witness ==
    /\ MockDone
    /\ ContainsNoCase(apiTranscript, KwDog)
    /\ ~AnyRuleMatches(apiTranscript)
    /\ Returned(apiResult.highPriorityTasks, "Review your priorities", "high")

\* The days from 2024-01-01 to the first day of a year, of a month.
RECURSIVE DaysBeforeYear(_)
DaysBeforeYear(year) ==
    IF year <= 2024 THEN 0
    ELSE DaysBeforeYear(year - 1) + (IF IsLeap(year - 1) THEN 366 ELSE 365)

RECURSIVE DaysBeforeMonth(_, _)
DaysBeforeMonth(year, month) ==
    IF month = 0 THEN 0
    ELSE DaysBeforeMonth(year, month - 1) + DaysInMonth(year, month - 1)

\* The number of the day a date object stands for, and of a formatted date.
DayOf(d) == DaysBeforeYear(d.year) + DaysBeforeMonth(d.year, d.month) + d.date
DayOfFormatted(f) == DaysBeforeYear(f[1]) + DaysBeforeMonth(f[1], f[2] - 1) + f[3]

\* The offset in days the tasks of a title are dated with.
DayOffsets ==
    [title \in {"File your taxes", "Take your dog to the vet", "Help with driver's license",
                "Dispose of yard waste", "Plan vacation for burnout recovery"} |->
        CASE title = "File your taxes" -> 0
          [] title = "Take your dog to the vet" -> 2
          [] title = "Help with driver's license" -> 5
          [] title = "Dispose of yard waste" -> 7
          [] OTHER -> 14]

\* C18: each task of the heuristic is dated a fixed number of days after the
\* current date, whatever other rules matched: taxes 0, dog/vet 2, driver's
\* license 5, yard waste 7, vacation 14.
C18_DatesAreFixedOffsets ==
    MockDone =>
        \A t \in Range(apiResult.highPriorityTasks) \cup Range(apiResult.mediumPriorityTasks) :
            t.title \in DOMAIN DayOffsets =>
                DayOfFormatted(t.date) = DayOf(today) + DayOffsets[t.title]

\* ---------------------------------------------------------------------------
\* C19: in every state of TaskService a task of highPriorityTasks has priority
\* 'high' and is not completed, a task of mediumPriorityTasks has priority
\* 'medium' and is not completed, and a task of completedTasks is completed.
C19_ListsAgreeWithFields ==
    /\ \A t \in Range(highPriorityTasks) : t.priority = "high" /\ ~t.completed
    /\ \A t \in Range(mediumPriorityTasks) : t.priority = "medium" /\ ~t.completed
    /\ \A t \in Range(completedTasks) : t.completed

\* ---------------------------------------------------------------------------
\* C20: when stop was pressed while recording and the recorder produced an
\* audio URI, the handler of that press ends with a new recording (that
\* audioUri, transcript null, not processed) added to the recording service and
\* the Transcript screen opened for its id.
C20_StopAddsAndOpensTranscript ==
    [][(stopPc # "idle" /\ stopPc' = "idle" /\ produced' # NoAudio) =>
          /\ route'.screen = "Transcript"
          /\ \E i \in 1..Len(added') :
                 /\ i > Len(added) \/ stopPc = "adding"
                 /\ added'[i].id = route'.recordingId
                 /\ added'[i].audioUri = produced'
                 /\ added'[i].transcript = "null"
                 /\ ~added'[i].processed]_vars

=============================================================================
